---- MODULE Spec2Model ----
(***************************************************************************)
(* Model of the backtest/accounting engine (core/backtester.py) and of the *)
(* request rate limiter (data_fetcher.py) of the stock screening system.   *)
(*                                                                         *)
(* Arithmetic.  The program computes with Python floats.  The model uses   *)
(* fixed-point integers: money and share quantities are counted in units   *)
(* of 1/Scale, prices are whole numbers, a quotient is rounded down, and   *)
(* the commission rate is the fraction rate.num / rate.den.                *)
(***************************************************************************)
EXTENDS Integers, Sequences, FiniteSets, TLC

\* ------------------------------------------------------------------ bounds
Symbols == {"A", "B"}
Prices == {0, 1, 2}    \* prices of the portfolio specification
MaxCalls == 3          \* rebalance calls of the portfolio specification
Scale == 1000          \* fixed-point units per currency unit

\* Portfolio.__init__ defaults
DefaultCapital == 1000000 * Scale
DefaultRate == [num |-> 3, den |-> 10000]

Capitals == {0, 1000}
Rates == {[num |-> 0, den |-> 1], [num |-> 1, den |-> 10]}

VARIABLES
    initial_capital,   \* Portfolio.initial_capital
    commission_rate,   \* Portfolio.commission_rate
    cash,              \* Portfolio.cash
    holdings,          \* Portfolio.holdings: code -> [shares, price]
    history,           \* Portfolio.history: sequence of [date, value]
    lastCall,          \* bookkeeping of the most recent rebalance call
    pc,                \* BacktestEngine.run: the statement to execute next
    all_trade_days,    \* run: the trade calendar
    day,               \* run: index of current_date in all_trade_days
    target_stocks,     \* run: the selection of the current date
    current_prices,    \* run: the prices of the current date
    result,            \* run: how the call ended
    message,           \* run: the last status line printed
    trace,             \* the calls run has made to its collaborators
    now,               \* time.time(), in ticks
    request_lock,      \* StockDataFetcher._request_lock: its holder, or Free
    last_request_time, \* _last_request_time as each instance sees it set
    tpc,               \* per thread: position in _wait_for_rate_limit
    tself,             \* per thread: the fetcher instance it calls through
    twake,             \* per thread: the time at which its sleep is over
    passages,          \* the passages through _wait_for_rate_limit, in order
    fpc,               \* StockDataFetcher: position in the method being run
    fmethod,           \* StockDataFetcher: the method being run
    retry_i,           \* get_all_stocks_with_market_cap: the loop variable i
    df,                \* get_all_stocks_with_market_cap: the frame df
    last_err,          \* get_all_stocks_with_market_cap: last_err
    events,            \* what the running fetcher method has done, in order
    fret,              \* what the fetcher method returned
    xpc,               \* TaskExecutor.execute_with_retry: position
    retry_count,       \* task_config.retry_count
    attempt,           \* execute_with_retry: the loop variable attempt
    last_result,       \* execute_with_retry: last_result
    xret,              \* execute_with_retry: the result returned
    xlog,              \* what execute_with_retry has done, in order
    spc,               \* selection run: position
    pool_from,         \* who fetched the pool: the selector or its caller
    listing,           \* the rows the data source returned for the pool
    all_stocks,        \* run_selection: all_stocks
    sel_config,        \* the selector's self.config
    candidate_stocks,  \* run_selection: candidate_stocks
    task_k,            \* _score_stocks: index of the next task
    fetches,           \* the get_stock_data calls of the scoring, in order
    scored_stocks,     \* _score_stocks: results
    selection,         \* what run_selection returned
    cpc,               \* scoring and construction: the last operation
    signals,           \* the inputs of the last scoring operation
    score_out,         \* the score the last scoring operation returned
    selector,          \* the selector object, once constructed
    quote_calls,       \* the get_realtime_quotes calls of the run: their codes
    quotes,            \* what the last get_realtime_quotes call returned
    wpc,               \* _score_stocks: position of the calling thread
    tasks,             \* _score_stocks: tasks
    hists,             \* per task: the history and score of its stock
    max_workers,       \* _score_stocks: max_workers
    work_queue,        \* the executor's queue: the tasks not yet taken
    workers,           \* per worker thread: its task (0: none) and phase
    futures,           \* per task: whether it is done, and its result
    completed,         \* the tasks in the order in which they completed
    next_future,       \* executor.map: the index of the future awaited
    results,           \* _score_stocks: results
    starts,            \* every start of a scoring: the task and the worker
    wret,              \* what the run returned after the scoring
    running_tasks,     \* TaskExecutor.running_tasks: id -> the marking thread
    epc,               \* per thread: its position in execute_task
    etask,             \* per thread: task_config.id of its call
    estatus,           \* per thread: result.status of its call
    apc,               \* scoring with reasons: the method that has run
    factor_in,         \* scoring with reasons: what the frame shows
    score_ret,         \* scoring with reasons: the score returned
    reasons_ret        \* scoring with reasons: the reasons returned

pvars == <<initial_capital, commission_rate, cash, holdings, history, lastCall>>
evars == <<pc, all_trade_days, day, target_stocks, current_prices, result, message, trace>>
rvars == <<now, request_lock, last_request_time, tpc, tself, twake, passages>>
fvars == <<fpc, fmethod, retry_i, df, last_err, events, fret>>
xvars == <<xpc, retry_count, attempt, last_result, xret, xlog>>
svars == <<spc, pool_from, listing, all_stocks, sel_config, candidate_stocks,
           task_k, fetches, scored_stocks, selection>>
cvars == <<cpc, signals, score_out, selector>>
qvars == <<quote_calls, quotes>>
wvars == <<wpc, tasks, hists, max_workers, work_queue, workers, futures,
           completed, next_future, results, starts, wret>>
kvars == <<running_tasks, epc, etask, estatus>>
gvars == <<apc, factor_in, score_ret, reasons_ret>>
nvars == <<qvars, wvars, kvars, gvars>>
ovars == <<fvars, xvars, svars, cvars, nvars>>
vars == <<pvars, evars, rvars, ovars>>

\* ------------------------------------------------------------- helpers
EmptyMap == [c \in {} |-> 0]
NoCall == [made |-> FALSE, n |-> 0]

\* every sequence of distinct symbols (a selection result lists a code once)
RECURSIVE SeqsOver(_)
SeqsOver(S) ==
    IF S = {} THEN {<<>>}
    ELSE {<<>>} \cup UNION {{<<c>> \o s : s \in SeqsOver(S \ {c})} : c \in S}

TargetLists == SeqsOver(Symbols)
PriceMaps == UNION {[D -> Prices] : D \in SUBSET Symbols}

CommissionFree(trade_value, rate) == 0

\* trade_value * commission_rate, without overflowing on large values
Commission(trade_value, rate) ==
    (trade_value \div rate.den) * rate.num
        + ((trade_value % rate.den) * rate.num) \div rate.den

\* ------------------------------------------------------------ Portfolio
\* Portfolio.get_current_value
RECURSIVE StockValue(_, _, _)
StockValue(codes, hold, prices) ==
    IF codes = {} THEN 0
    ELSE LET code == CHOOSE c \in codes : TRUE
             position == hold[code]
             v == IF code \in DOMAIN prices
                  THEN position.shares * prices[code]
                  ELSE position.shares * position.price
         IN v + StockValue(codes \ {code}, hold, prices)

get_current_value(c, hold, prices) ==
    c + StockValue(DOMAIN hold, hold, prices)

\* Portfolio.rebalance, step 1: the sell loop.  Yields the cash credited and
\* the commission paid over the positions in codes.
RECURSIVE SellLoop(_, _, _, _)
SellLoop(codes, hold, prices, rate) ==
    IF codes = {} THEN [credit |-> 0, commission |-> 0]
    ELSE LET code == CHOOSE c \in codes : TRUE
             rest == SellLoop(codes \ {code}, hold, prices, rate)
         IN IF code \in DOMAIN prices
            THEN LET trade_value == hold[code].shares * prices[code]
                     commission == Commission(trade_value, rate)
                 IN [credit |-> rest.credit + (trade_value - commission),
                     commission |-> rest.commission + commission]
            ELSE rest

\* the affordability test of the buy loop
CanAffordWithoutCommission(c, trade_value, commission) == c >= trade_value

CanAfford(c, trade_value, commission) == c >= trade_value + commission

\* the buy loop with the bug of leaving the loop at the first target that has
\* no positive price
RECURSIVE BuyLoopBreak(_, _, _, _, _, _)
BuyLoopBreak(targets, i, investment_per_stock, st, prices, rate) ==
    IF i > Len(targets) THEN st
    ELSE LET code == targets[i]
             priced == code \in DOMAIN prices /\ prices[code] > 0
             price == IF priced THEN prices[code] ELSE 1
             shares_to_buy == investment_per_stock \div price
             trade_value == shares_to_buy * price
             commission == Commission(trade_value, rate)
             next == IF CanAfford(st.cash, trade_value, commission)
                     THEN [cash |-> st.cash - (trade_value + commission),
                           holdings |-> (code :> [shares |-> shares_to_buy, price |-> price])
                                            @@ st.holdings,
                           commission |-> st.commission + commission]
                     ELSE st
         IN IF ~priced THEN st
            ELSE BuyLoopBreak(targets, i + 1, investment_per_stock, next,
                              prices, rate)

\* Portfolio.rebalance, step 2: the buy loop over target_holdings[i..]
RECURSIVE BuyLoop(_, _, _, _, _, _)
BuyLoop(targets, i, investment_per_stock, st, prices, rate) ==
    IF i > Len(targets) THEN st
    ELSE LET code == targets[i]
             priced == code \in DOMAIN prices /\ prices[code] > 0
             price == IF priced THEN prices[code] ELSE 1
             shares_to_buy == investment_per_stock \div price
             trade_value == shares_to_buy * price
             commission == Commission(trade_value, rate)
             next == IF priced /\ CanAfford(st.cash, trade_value, commission)
                     THEN [cash |-> st.cash - (trade_value + commission),
                           holdings |-> (code :> [shares |-> shares_to_buy, price |-> price])
                                            @@ st.holdings,
                           commission |-> st.commission + commission]
                     ELSE st
         IN BuyLoop(targets, i + 1, investment_per_stock, next, prices, rate)

\* record_history with the bug of recording only the days that end with a
\* position
record_history_if_invested(hist, date, c, hold, prices) ==
    IF hold = EmptyMap THEN hist
    ELSE Append(hist, [date |-> date, value |-> get_current_value(c, hold, prices)])

\* Portfolio.record_history
record_history(hist, date, c, hold, prices) ==
    Append(hist, [date |-> date, value |-> get_current_value(c, hold, prices)])

\* Portfolio.rebalance as a function of the portfolio state and its arguments
rebalance(c, hold, hist, rate, date, target_holdings, prices) ==
    LET sold == SellLoop(DOMAIN hold, hold, prices, rate)
        cashAfterSell == c + sold.credit
        start == [cash |-> cashAfterSell, holdings |-> EmptyMap, commission |-> 0]
        bought == IF target_holdings # <<>>
                  THEN BuyLoop(target_holdings, 1, cashAfterSell \div Len(target_holdings),
                               start, prices, rate)
                  ELSE start
    IN [cash |-> bought.cash,
        holdings |-> bought.holdings,
        history |-> record_history(hist, date, bought.cash, bought.holdings, prices),
        cashAfterSell |-> cashAfterSell,
        commission |-> sold.commission + bought.commission]

\* the effect of one call of Portfolio.rebalance on the portfolio variables
DoRebalance(date, target_holdings, prices) ==
    LET r == rebalance(cash, holdings, history, commission_rate,
                       date, target_holdings, prices)
    IN /\ cash' = r.cash
       /\ holdings' = r.holdings
       /\ history' = r.history
       /\ lastCall' = [made |-> TRUE,
                       n |-> lastCall.n + 1,
                       date |-> date,
                       historyBefore |-> history,
                       targets |-> target_holdings,
                       prices |-> prices,
                       cashBefore |-> cash,
                       holdingsBefore |-> holdings,
                       cashAfterSell |-> r.cashAfterSell,
                       commission |-> r.commission]
       /\ UNCHANGED <<initial_capital, commission_rate>>

\* Portfolio.__init__
PortfolioInit(capital, rate) ==
    /\ initial_capital = capital
    /\ commission_rate = rate
    /\ cash = capital
    /\ holdings = EmptyMap
    /\ history = <<>>
    /\ lastCall = NoCall

\* the engine before run is called
EngineIdle ==
    /\ pc = "idle"
    /\ all_trade_days = <<>>
    /\ day = 0
    /\ target_stocks = <<>>
    /\ current_prices = EmptyMap
    /\ result = "none"
    /\ message = "none"
    /\ trace = <<>>

\* ------------------------------------------------- components at rest
\* no method of the fetcher is running
FetcherIdle ==
    /\ fpc = "idle"
    /\ fmethod = "none"
    /\ retry_i = 0
    /\ df = "empty"
    /\ last_err = "None"
    /\ events = <<>>
    /\ fret = "none"

\* execute_with_retry is not running
ExecutorIdle ==
    /\ xpc = "idle"
    /\ retry_count = 0
    /\ attempt = 0
    /\ last_result = "None"
    /\ xret = "none"
    /\ xlog = <<>>

\* a float that is not a number (np.nan)
NaN == -1

\* Python's None, for a key that a config lacks
None == -2

\* pd.DataFrame(): no columns, no rows
EmptyFrame == [has_market_cap |-> FALSE, rows |-> <<>>]

\* the defaults of self.config.get for a selector without a config yet
NoConfig ==
    [min_market_cap |-> None, max_market_cap |-> None,
     period |-> 120, top_n |-> 10]

\* no selection run has started
SelectionIdle ==
    /\ spc = "idle"
    /\ pool_from = "none"
    /\ listing = <<>>
    /\ all_stocks = EmptyFrame
    /\ sel_config = NoConfig
    /\ candidate_stocks = EmptyFrame
    /\ task_k = 1
    /\ fetches = <<>>
    /\ scored_stocks = <<>>
    /\ selection = <<>>

NoSignals == [kind |-> "none", v |-> <<>>]

NoWeights ==
    [technical |-> 0, fundamental |-> 0, sentiment |-> 0, industry |-> 0]

NoSelector ==
    [exists |-> FALSE, name |-> "none", weights |-> NoWeights,
     min_score |-> 0, max_stocks |-> 0]

\* nothing has been scored and no selector constructed
ScoringIdle ==
    /\ cpc = "idle"
    /\ signals = NoSignals
    /\ score_out = 0
    /\ selector = NoSelector

\* no quotes have been requested
QuotesIdle ==
    /\ quote_calls = <<>>
    /\ quotes = EmptyMap

\* _score_stocks is not running
WorkersIdle ==
    /\ wpc = "idle"
    /\ tasks = <<>>
    /\ hists = <<>>
    /\ max_workers = 0
    /\ work_queue = <<>>
    /\ workers = <<>>
    /\ futures = <<>>
    /\ completed = <<>>
    /\ next_future = 1
    /\ results = <<>>
    /\ starts = <<>>
    /\ wret = <<>>

\* the threads that call execute_task: the scheduler thread (through
\* job_wrapper) and callers of run_task_now
ExecThreads == {"scheduler", "caller"}

\* no thread is in execute_task and no task is marked as running
TaskThreadsIdle ==
    /\ running_tasks = EmptyMap
    /\ epc = [t \in ExecThreads |-> "idle"]
    /\ etask = [t \in ExecThreads |-> "none"]
    /\ estatus = [t \in ExecThreads |-> "none"]

\* no score with reasons has been computed
ReasonsIdle ==
    /\ apc = "idle"
    /\ factor_in = [kind |-> "none", v |-> <<>>]
    /\ score_ret = 0
    /\ reasons_ret = <<>>

OthersIdle ==
    /\ FetcherIdle
    /\ ExecutorIdle
    /\ SelectionIdle
    /\ ScoringIdle
    /\ QuotesIdle
    /\ WorkersIdle
    /\ TaskThreadsIdle
    /\ ReasonsIdle

\* --------------------------------------- StockDataFetcher: rate limiter
NThreads == 2          \* threads that call _wait_for_rate_limit
MaxPassages == 3       \* passages made in one behaviour
TicksPerSecond == 2    \* clock resolution of the model
StartTime == 10        \* time.time() when the process starts, in ticks
Horizon == 6           \* ticks the clock advances in one behaviour

Threads == 1..NThreads
Instances == {"backtest_fetcher", "selector_fetcher"}
Free == 0
Unset == -1

\* the attribute _last_request_time of the class
ClassLastRequestTime == 0

\* StockDataFetcher.__init__: self.request_delay = 1.0
request_delay == 1 * TicksPerSecond

\* self._last_request_time: the attribute of the instance once one is set,
\* else the attribute of the class
ReadLastRequestTime(inst) ==
    IF last_request_time[inst] # Unset THEN last_request_time[inst]
    ELSE ClassLastRequestTime

\* no thread is in _wait_for_rate_limit
LimiterIdle ==
    /\ now = StartTime
    /\ request_lock = Free
    /\ last_request_time = [inst \in Instances |-> Unset]
    /\ tpc = [t \in Threads |-> "idle"]
    /\ tself = [t \in Threads |-> "backtest_fetcher"]
    /\ twake = [t \in Threads |-> 0]
    /\ passages = <<>>

InitRateLimit ==
    /\ PortfolioInit(DefaultCapital, DefaultRate)
    /\ EngineIdle
    /\ LimiterIdle
    /\ OthersIdle

\* time passes
Tick ==
    /\ now < StartTime + Horizon
    /\ now' = now + 1
    /\ UNCHANGED <<pvars, evars, ovars, request_lock, last_request_time, tpc, tself, twake, passages>>

\* a thread calls inst._wait_for_rate_limit() and takes the lock
AcquireLock(t) ==
    /\ tpc[t] = "idle"
    /\ request_lock = Free
    /\ Len(passages) + Cardinality({u \in Threads : tpc[u] # "idle"}) < MaxPassages
    /\ \E inst \in Instances : tself' = [tself EXCEPT ![t] = inst]
    /\ request_lock' = t
    /\ tpc' = [tpc EXCEPT ![t] = "locked"]
    /\ UNCHANGED <<pvars, evars, ovars, now, last_request_time, twake, passages>>

\* current_time = time.time(); the test on time_since_last
ReadClock(t) ==
    /\ tpc[t] = "locked"
    /\ LET current_time == now
           time_since_last == current_time - ReadLastRequestTime(tself[t])
       IN IF time_since_last < request_delay
          THEN /\ tpc' = [tpc EXCEPT ![t] = "sleeping"]
               /\ twake' = [twake EXCEPT ![t] = now + (request_delay - time_since_last)]
          ELSE /\ tpc' = [tpc EXCEPT ![t] = "stamp"]
               /\ UNCHANGED twake
    /\ UNCHANGED <<pvars, evars, ovars, now, request_lock, last_request_time, tself, passages>>

\* time.sleep(sleep_time) returns, not before sleep_time has passed
WakeUp(t) ==
    /\ tpc[t] = "sleeping"
    /\ now >= twake[t]
    /\ tpc' = [tpc EXCEPT ![t] = "stamp"]
    /\ UNCHANGED <<pvars, evars, ovars, now, request_lock, last_request_time, tself, twake, passages>>

\* self._last_request_time = time.time(); the lock is released and the call
\* returns
Stamp(t) ==
    /\ tpc[t] = "stamp"
    /\ last_request_time' = [last_request_time EXCEPT ![tself[t]] = now]
    /\ request_lock' = Free
    /\ tpc' = [tpc EXCEPT ![t] = "idle"]
    /\ passages' = Append(passages, [thread |-> t, inst |-> tself[t], time |-> now])
    /\ UNCHANGED <<pvars, evars, ovars, now, tself, twake>>

NextRateLimit ==
    \/ Tick
    \/ \E t \in Threads : AcquireLock(t)
    \/ \E t \in Threads : ReadClock(t)
    \/ \E t \in Threads : WakeUp(t)
    \/ \E t \in Threads : Stamp(t)

SpecRateLimit == InitRateLimit /\ [][NextRateLimit]_vars

\* ---------------------------------------- specification: Portfolio alone
InitPortfolio ==
    /\ \E capital \in Capitals, rate \in Rates : PortfolioInit(capital, rate)
    /\ EngineIdle
    /\ LimiterIdle
    /\ OthersIdle

RebalanceCall ==
    /\ Len(history) < MaxCalls
    /\ \E target_holdings \in TargetLists, prices \in PriceMaps :
           DoRebalance(Len(history) + 1, target_holdings, prices)
    /\ UNCHANGED <<evars, rvars, ovars>>

NextPortfolio == RebalanceCall

SpecPortfolio == InitPortfolio /\ [][NextPortfolio]_vars

\* ------------------------------------------------------- BacktestEngine
MaxDays == 3           \* longest trade calendar
ClosePrices == {10, 11} \* the closes a symbol can have on a day

\* StockDataFetcher.get_trade_days: the trade days of [start, end], ascending
Calendars == {[i \in 1..k |-> i] : k \in 0..MaxDays}

\* the for statement of run, read back to front
CurrentDateReversed(days, i) == days[Len(days) + 1 - i]

\* the for statement of run: the i-th date of the calendar
CurrentDate(days, i) == days[i]

RangeOf(s) == {s[i] : i \in 1..Len(s)}

\* StockDataFetcher.get_prices_for_date: {} for no stocks, for a failed
\* request and for an empty frame; else the close of the stocks found in the
\* frame
get_prices_for_date(stocks, failed) ==
    IF stocks = <<>> THEN {EmptyMap}
    ELSE IF failed THEN {EmptyMap}
    ELSE UNION {[D -> ClosePrices] : D \in SUBSET RangeOf(stocks)}

\* generate_report without its guard on an empty history
generate_report_unguarded(hist) ==
    IF hist = <<>> THEN "KeyError"
    ELSE IF hist[Len(hist)].date - hist[1].date = 0 THEN "ZeroDivisionError"
    ELSE "Report"

\* BacktestEngine.generate_report: None for an empty history; the annualized
\* return divides by the days between the first and the last snapshot
generate_report(hist) ==
    IF hist = <<>> THEN "None"
    ELSE IF hist[Len(hist)].date - hist[1].date = 0 THEN "ZeroDivisionError"
    ELSE "Report"

\* a / b = c / d for naturals, by comparing the continued fractions (no
\* product is formed, so large NAVs do not overflow)
RECURSIVE RatioEq(_, _, _, _)
RatioEq(a, b, c, d) ==
    IF b = 0 \/ d = 0 THEN b = 0 /\ d = 0
    ELSE /\ a \div b = c \div d
         /\ RatioEq(b, a % b, d, c % d)

\* report['sharpe_ratio'] for a history of two or more snapshots, in
\* exact arithmetic: np.mean / np.std of the daily returns raises nothing
\* and gives nan for 0 / 0 and for returns that are not finite (a NAV of
\* 0 before the last day), inf for x / 0
sharpe_ratio(hist) ==
    LET n == Len(hist)
    IN IF n < 2 \/ \E i \in 1..(n - 1) : hist[i].value = 0 THEN "nan"
       ELSE IF \A i \in 1..(n - 2) :
                   RatioEq(hist[i + 1].value, hist[i].value,
                           hist[i + 2].value, hist[i + 1].value)
            THEN (IF hist[2].value = hist[1].value THEN "nan" ELSE "inf")
            ELSE "finite"

\* BacktestEngine.__init__
InitBacktest ==
    /\ PortfolioInit(DefaultCapital, DefaultRate)
    /\ pc = "stocks"
    /\ all_trade_days = <<>>
    /\ day = 0
    /\ target_stocks = <<>>
    /\ current_prices = EmptyMap
    /\ result = "none"
    /\ message = "start"
    /\ trace = <<>>
    /\ LimiterIdle
    /\ OthersIdle

\* run: all_stocks = get_all_stocks_with_market_cap(); return when it is empty
FetchStocks ==
    /\ pc = "stocks"
    /\ \E empty \in BOOLEAN :
           IF empty
           THEN /\ pc' = "done"
                /\ result' = "None"
                /\ message' = "cannot_fetch_stock_list"
           ELSE /\ pc' = "calendar"
                /\ UNCHANGED <<result, message>>
    /\ UNCHANGED <<pvars, rvars, ovars, all_trade_days, day, target_stocks, current_prices, trace>>

\* the head of the for statement: the next date, or the end of the loop
LoopHead(days, i) ==
    IF i <= Len(days)
    THEN /\ pc' = "select"
         /\ UNCHANGED message
    ELSE /\ pc' = "report"
         /\ message' = "backtest_finished"

\* run: all_trade_days = get_trade_days(start_date, end_date)
GetTradeDays ==
    /\ pc = "calendar"
    /\ \E days \in Calendars :
           /\ all_trade_days' = days
           /\ day' = 1
           /\ LoopHead(days, 1)
    /\ trace' = Append(trace, [op |-> "get_trade_days"])
    /\ UNCHANGED <<pvars, rvars, ovars, target_stocks, current_prices, result>>

\* run: target_stocks = strategy.run_selection(all_stocks, current_date);
\* an exception of the strategy leaves run
Select ==
    /\ pc = "select"
    /\ LET current_date == CurrentDate(all_trade_days, day)
       IN \/ \E targets \in TargetLists :
                /\ target_stocks' = targets
                /\ trace' = Append(trace, [op |-> "run_selection", date |-> current_date,
                                           raised |-> FALSE, targets |-> targets])
                /\ pc' = "prices"
                /\ UNCHANGED result
          \/ /\ trace' = Append(trace, [op |-> "run_selection", date |-> current_date,
                                        raised |-> TRUE, targets |-> <<>>])
             /\ pc' = "done"
             /\ result' = "StrategyError"
             /\ UNCHANGED target_stocks
    /\ UNCHANGED <<pvars, rvars, ovars, all_trade_days, day, current_prices, message>>

\* run: current_prices = get_prices_for_date(target_stocks, current_date)
FetchPrices ==
    /\ pc = "prices"
    /\ \E failed \in BOOLEAN : \E prices \in get_prices_for_date(target_stocks, failed) :
           /\ current_prices' = prices
           /\ trace' = Append(trace, [op |-> "get_prices_for_date",
                                      date |-> CurrentDate(all_trade_days, day),
                                      failed |-> failed,
                                      prices |-> prices])
    /\ pc' = "rebalance"
    /\ UNCHANGED <<pvars, rvars, ovars, all_trade_days, day, target_stocks, result, message>>

\* run: portfolio.rebalance(current_date, target_stocks, current_prices), then
\* the next iteration
Rebalance ==
    /\ pc = "rebalance"
    /\ DoRebalance(CurrentDate(all_trade_days, day), target_stocks, current_prices)
    /\ trace' = Append(trace, [op |-> "rebalance", date |-> CurrentDate(all_trade_days, day)])
    /\ day' = day + 1
    /\ LoopHead(all_trade_days, day + 1)
    /\ UNCHANGED <<rvars, ovars, all_trade_days, target_stocks, current_prices, result>>

\* run: return generate_report()
Report ==
    /\ pc = "report"
    /\ result' = generate_report(history)
    /\ message' = IF history = <<>> THEN "history_empty" ELSE message
    /\ pc' = "done"
    /\ UNCHANGED <<pvars, rvars, ovars, all_trade_days, day, target_stocks, current_prices, trace>>

NextBacktest ==
    \/ FetchStocks
    \/ GetTradeDays
    \/ Select
    \/ FetchPrices
    \/ Rebalance
    \/ Report

SpecBacktest == InitBacktest /\ [][NextBacktest]_vars

\* ------------------------------------------------ properties: Portfolio
Priced(code, prices) == code \in DOMAIN prices /\ prices[code] > 0

\* cash + sum of shares x recorded price, computed from the holdings alone
RECURSIVE PositionsValue(_, _)
PositionsValue(codes, hold) ==
    IF codes = {} THEN 0
    ELSE LET code == CHOOSE c \in codes : TRUE
         IN hold[code].shares * hold[code].price + PositionsValue(codes \ {code}, hold)

NavOf(c, hold) == c + PositionsValue(DOMAIN hold, hold)

\* C1: cash is never negative, whatever the rebalance calls, targets and
\* price maps were.
Thm_C1_CashNonNegative == cash >= 0

\* a second or later rebalance that bought something although its price map
\* missed a held symbol and a targeted symbol
Wit_C1_RebalanceWithMissingPrices ==
    /\ lastCall.made
    /\ lastCall.n >= 2
    /\ \E code \in DOMAIN lastCall.holdingsBefore : code \notin DOMAIN lastCall.prices
    /\ \E i \in 1..Len(lastCall.targets) : lastCall.targets[i] \notin DOMAIN lastCall.prices
    /\ \E code \in DOMAIN holdings : holdings[code].shares > 0
    /\ commission_rate.num > 0

\* what the sell loop credits when a position without a price is sold at its
\* recorded cost price
RECURSIVE LiquidationCredit(_, _, _, _)
LiquidationCredit(codes, hold, prices, rate) ==
    IF codes = {} THEN 0
    ELSE LET code == CHOOSE c \in codes : TRUE
             price == IF code \in DOMAIN prices THEN prices[code] ELSE hold[code].price
             proceeds == hold[code].shares * price
         IN (proceeds - Commission(proceeds, rate))
                + LiquidationCredit(codes \ {code}, hold, prices, rate)

\* C2: every held position is liquidated, at prices[symbol] or else at its
\* recorded cost price, and cash is credited with proceeds minus commission
\* before the positions are cleared.
Cex_C2_LiquidationCreditsEveryPosition ==
    lastCall.made =>
        lastCall.cashAfterSell =
            lastCall.cashBefore
                + LiquidationCredit(DOMAIN lastCall.holdingsBefore, lastCall.holdingsBefore,
                                    lastCall.prices, commission_rate)

\* C3: a rebalance call appends exactly one snapshot, dated with the call's
\* date and valued cash + sum of shares x price of the positions held after
\* the call; no other step touches the history and no snapshot changes.
Thm_C3_OneSnapshotPerRebalance ==
    [][IF lastCall'.n = lastCall.n + 1
       THEN /\ Len(history') = Len(history) + 1
            /\ SubSeq(history', 1, Len(history)) = history
            /\ history'[Len(history')] =
                   [date |-> lastCall'.date, value |-> NavOf(cash', holdings')]
       ELSE history' = history]_vars

\* a rebalance in which nothing was traded has left its snapshot
Wit_C3_SnapshotWithoutTrade ==
    /\ lastCall.made
    /\ lastCall.holdingsBefore = EmptyMap
    /\ holdings = EmptyMap
    /\ lastCall.n = 2
    /\ Len(history) = 2
    /\ cash > 0

\* C4: the value right after a rebalance is the value right before it (old
\* positions marked at the call's price map, at cost when the price is
\* missing) minus the commissions of the call.
Cex_C4_NavConservation ==
    lastCall.made =>
        NavOf(cash, holdings) =
            get_current_value(lastCall.cashBefore, lastCall.holdingsBefore, lastCall.prices)
                - lastCall.commission

\* C6: a target without a positive price is skipped, and only it: the call
\* still appends its snapshot and the targets with a positive price are bought.
Thm_C6_MissingPriceSkipsOnlyThatTarget ==
    (lastCall.made /\ \E i \in 1..Len(lastCall.targets) :
                          ~Priced(lastCall.targets[i], lastCall.prices)) =>
        /\ Len(history) = Len(lastCall.historyBefore) + 1
        /\ history[Len(history)].date = lastCall.date
        /\ \A i \in 1..Len(lastCall.targets) :
               lastCall.targets[i] \in DOMAIN holdings
                   <=> Priced(lastCall.targets[i], lastCall.prices)

\* the first target has no price, the second has one and was bought
Wit_C6_SecondTargetBoughtAfterSkip ==
    /\ lastCall.made
    /\ Len(lastCall.targets) = 2
    /\ lastCall.targets[1] \notin DOMAIN lastCall.prices
    /\ lastCall.targets[2] \in DOMAIN holdings
    /\ holdings[lastCall.targets[2]].shares > 0

\* C27: every stored position has shares > 0 and a recorded price > 0,
\* and the held symbols are among the targets of the latest rebalance
Cex_C27_PositionsPositiveAndTargeted ==
    /\ \A code \in DOMAIN holdings :
           holdings[code].shares > 0 /\ holdings[code].price > 0
    /\ lastCall.made =>
           DOMAIN holdings \subseteq
               {lastCall.targets[i] : i \in 1..Len(lastCall.targets)}

\* the latest rebalance had a positive rate, positive cash after the sell
\* loop and targets that all have a positive price, and its divisions
\* (cash by the number of targets, the share by each price, the
\* commission) left no remainder, so that they are the float results
EqualSplitCase ==
    /\ lastCall.made
    /\ commission_rate.num > 0
    /\ lastCall.cashAfterSell > 0
    /\ Len(lastCall.targets) >= 1
    /\ \A i \in 1..Len(lastCall.targets) :
           Priced(lastCall.targets[i], lastCall.prices)
    /\ LET n == Len(lastCall.targets)
           share == lastCall.cashAfterSell \div n
       IN /\ lastCall.cashAfterSell % n = 0
          /\ \A i \in 1..n : share % lastCall.prices[lastCall.targets[i]] = 0
          /\ (share * commission_rate.num) % commission_rate.den = 0

LoopOps == <<"run_selection", "get_prices_for_date", "rebalance">>

\* a trading day has just been completed
DayCompleted == trace # <<>> /\ trace[Len(trace)].op = "rebalance"

\* the loop over the calendar has ended normally
LoopEnded == pc = "report" \/ (pc = "done" /\ message \in {"backtest_finished", "history_empty"})

FlatPrices == [code \in {"A", "B"} |-> 10]

\* the run so far is the scenario: 3 trade days, {A, B} selected and both
\* priced 10.0 every day, capital 1,000,000, commission rate 0.0003
ScenarioAB ==
    /\ Len(all_trade_days) = 3
    /\ initial_capital = 1000000 * Scale
    /\ commission_rate = [num |-> 3, den |-> 10000]
    /\ \A k \in 1..Len(trace) :
           /\ trace[k].op = "run_selection" => trace[k].targets = <<"A", "B">>
           /\ trace[k].op = "get_prices_for_date" => trace[k].prices = FlatPrices

Abs(x) == IF x < 0 THEN -x ELSE x

\* C5: in the scenario A and B are both held after every day, the NAV of day 1
\* is about 999,700, and each later NAV is lower than the previous one by the
\* commissions of the day.
Cex_C5_ScenarioBothHeld ==
    (ScenarioAB /\ DayCompleted) =>
        /\ DOMAIN holdings = {"A", "B"}
        /\ Abs(history[1].value - 999700 * Scale) <= Scale
        /\ \A i \in 2..Len(history) : history[i].value < history[i - 1].value
        /\ Len(history) >= 2 =>
               history[Len(history) - 1].value - history[Len(history)].value
                   = lastCall.commission

\* the calendar was fetched and is empty, and run has returned
EmptyCalendarRun == pc = "done" /\ Len(trace) >= 1 /\ all_trade_days = <<>>

\* C7: with an empty calendar run ends with the no-trade-days error, calls
\* neither the strategy nor rebalance and leaves no snapshot.
Cex_C7_NoTradeDaysError ==
    EmptyCalendarRun =>
        /\ result = "ErrNoTradeDays"
        /\ Len(trace) = 1
        /\ history = <<>>

\* C7, amended: with an empty calendar run ends the loop normally, finds the
\* history empty and returns None (the value it also returns for an empty
\* stock list); it calls neither the strategy nor rebalance, and leaves the
\* portfolio untouched with no snapshot.
Thm_C7_EmptyCalendarReturnsNone ==
    EmptyCalendarRun =>
        /\ result = "None"
        /\ message = "history_empty"
        /\ Len(trace) = 1
        /\ history = <<>>
        /\ cash = initial_capital
        /\ holdings = EmptyMap

Wit_C7_EmptyCalendarRunReturned ==
    /\ EmptyCalendarRun
    /\ trace[1].op = "get_trade_days"
    /\ result # "none"

\* C8: a day whose selection or price fetch fails is skipped: run is not left,
\* and the portfolio's cash and holdings after the day are those before it.
Cex_C8_FailedDaySkipped ==
    /\ result # "StrategyError"
    /\ (DayCompleted /\ trace[Len(trace) - 1].failed) =>
           /\ cash = lastCall.cashBefore
           /\ holdings = lastCall.holdingsBefore

\* C9: run calls run_selection, get_prices_for_date and rebalance in this
\* order for one date after the other of the calendar, and when the loop has
\* ended the history has one snapshot per trade day, in calendar order.
Thm_C9_DaysInCalendarOrder ==
    /\ \A k \in 2..Len(trace) :
           /\ trace[k].op = LoopOps[((k - 2) % 3) + 1]
           /\ trace[k].date = all_trade_days[((k - 2) \div 3) + 1]
    /\ LoopEnded =>
           /\ Len(trace) = 1 + 3 * Len(all_trade_days)
           /\ Len(history) = Len(all_trade_days)
           /\ \A i \in 1..Len(history) : history[i].date = all_trade_days[i]

Wit_C9_ThreeDayRunReported ==
    /\ pc = "done"
    /\ result = "Report"
    /\ Len(all_trade_days) >= 3
    /\ Len(history) = Len(all_trade_days)

\* ---------------------------------------------- properties: rate limiter
\* C10: any two successive passages through _wait_for_rate_limit, by whatever
\* threads and fetcher instances, are at least request_delay apart.
Cex_C10_ProcessWideMinInterval ==
    \A i \in 1..(Len(passages) - 1) :
        passages[i + 1].time - passages[i].time >= request_delay


\* ------------------------------------------- StockDataFetcher: methods
\* the number of attempts of the candidate-list loop
max_retries == 5

\* the first backoff, in seconds
base_delay == 1

MaxRetryCount == 3

RECURSIVE Pow2(_)
Pow2(n) == IF n = 0 THEN 1 ELSE 2 * Pow2(n - 1)

Ev(kind, api, outcome, secs) ==
    [kind |-> kind, api |-> api, outcome |-> outcome, secs |-> secs]

\* self._wait_for_rate_limit()
AcquireEv == Ev("acquire", "_wait_for_rate_limit", "ok", 0)

\* a call of a data source
RequestEv(api, outcome) == Ev("request", api, outcome, 0)

\* time.sleep(secs)
SleepEv(secs) == Ev("sleep", "time.sleep", "ok", secs)

\* what a data source can do: raise, return an empty frame, return rows
Outcomes == {"raise", "empty", "data"}

\* TuShare: no token configured, or a call that raises / is empty / has rows
TushareOutcomes == {"unconfigured", "raise", "empty", "data"}

\* cache/all_a_list.csv: absent, unreadable or empty, or with rows
CacheStates == {"absent", "unreadable", "data"}

\* the fallback _tushare_fetch_*: its request, if a token is configured
TushareEvents(api, tushare) ==
    IF tushare = "unconfigured" THEN <<>> ELSE <<RequestEv(api, tushare)>>

FetcherReady == fpc \in {"idle", "returned"}

breaks_on_any_frame(outcome) == outcome # "raise"

\* if not df.empty: break
breaks(outcome) == outcome = "data"

\* get_all_stocks_with_market_cap is called: the locals before the loop
CallGetAllStocks ==
    /\ FetcherReady
    /\ fpc' = "loop"
    /\ fmethod' = "get_all_stocks_with_market_cap"
    /\ retry_i' = 0
    /\ df' = "empty"
    /\ last_err' = "None"
    /\ events' = <<>>
    /\ fret' = "none"
    /\ UNCHANGED <<pvars, evars, rvars, xvars, svars, cvars, nvars>>

\* one iteration of the loop over range(max_retries); retry_i is i, and
\* max_retries once the range is exhausted
Iteration(outcome) ==
    /\ fpc = "loop"
    /\ retry_i < max_retries
    /\ events' = events \o <<AcquireEv,
                              RequestEv("ak.stock_zh_a_spot_em", outcome)>>
                        \o (IF outcome # "raise" /\ breaks(outcome)
                            THEN <<>>
                            ELSE <<SleepEv(base_delay * Pow2(retry_i))>>)
    /\ df' = IF outcome = "raise" THEN df ELSE outcome
    /\ last_err' = IF outcome = "raise" THEN "Exception" ELSE last_err
    /\ IF outcome # "raise" /\ breaks(outcome)
       THEN /\ fpc' = "after_loop"
            /\ retry_i' = retry_i
       ELSE /\ retry_i' = retry_i + 1
            /\ fpc' = IF retry_i + 1 < max_retries THEN "loop"
                      ELSE "after_loop"
    /\ UNCHANGED <<fmethod, fret>>
    /\ UNCHANGED <<pvars, evars, rvars, xvars, svars, cvars, nvars>>

\* after the loop: the cache, then TuShare, then RuntimeError, which the
\* outer handler turns into an empty frame; otherwise the filtered frame
AfterLoop(cache, tushare) ==
    /\ fpc = "after_loop"
    /\ LET cached == IF df = "empty" /\ cache = "data" THEN "data" ELSE df
           asked == cached = "empty"
           final == IF asked /\ tushare = "data" THEN "data" ELSE cached
       IN /\ events' = IF asked
                       THEN events \o TushareEvents("pro.stock_basic", tushare)
                       ELSE events
          /\ df' = final
          /\ last_err' = IF asked /\ tushare # "data" THEN "RuntimeError"
                         ELSE last_err
          /\ fret' = IF final = "empty" THEN "empty_frame" ELSE "frame"
    /\ fpc' = "returned"
    /\ UNCHANGED <<fmethod, retry_i>>
    /\ UNCHANGED <<pvars, evars, rvars, xvars, svars, cvars, nvars>>

\* get_stock_data: acquisition, one request, TuShare when that fails (an
\* empty frame has no 'date' column, which raises as well)
GetStockData(outcome, tushare) ==
    /\ FetcherReady
    /\ fmethod' = "get_stock_data"
    /\ events' = <<AcquireEv, RequestEv("ak.stock_zh_a_hist", outcome)>>
                 \o (IF outcome = "data" THEN <<>>
                     ELSE TushareEvents("ts.pro_bar", tushare))
    /\ fret' = IF outcome = "data" \/ tushare = "data" THEN "frame"
               ELSE "empty_frame"
    /\ fpc' = "returned"
    /\ retry_i' = 0
    /\ df' = "empty"
    /\ last_err' = "None"
    /\ UNCHANGED <<pvars, evars, rvars, xvars, svars, cvars, nvars>>

\* get_realtime_quotes: {} for no codes, else one request
GetRealtimeQuotes(no_codes, outcome) ==
    /\ FetcherReady
    /\ fmethod' = "get_realtime_quotes"
    /\ events' = IF no_codes THEN <<>>
                 ELSE <<RequestEv("ak.stock_zh_a_spot_em", outcome)>>
    /\ fret' = IF ~no_codes /\ outcome = "data" THEN "quotes" ELSE "{}"
    /\ fpc' = "returned"
    /\ retry_i' = 0
    /\ df' = "empty"
    /\ last_err' = "None"
    /\ UNCHANGED <<pvars, evars, rvars, xvars, svars, cvars, nvars>>

\* get_prices_for_date, as a call of the fetcher: {} for no stocks, else
\* one request
GetPricesForDate(no_stocks, outcome) ==
    /\ FetcherReady
    /\ fmethod' = "get_prices_for_date"
    /\ events' = IF no_stocks THEN <<>>
                 ELSE <<RequestEv("ak.stock_zh_a_hist", outcome)>>
    /\ fret' = IF ~no_stocks /\ outcome = "data" THEN "prices" ELSE "{}"
    /\ fpc' = "returned"
    /\ retry_i' = 0
    /\ df' = "empty"
    /\ last_err' = "None"
    /\ UNCHANGED <<pvars, evars, rvars, xvars, svars, cvars, nvars>>

\* ----------------------------------- TaskExecutor.execute_with_retry
\* TaskStatus of a result of execute_task
Statuses == {"success", "failed", "cancelled"}

NoResult == [status |-> "None", retry_count |-> 0]

XEv(kind, status, secs) == [kind |-> kind, status |-> status, secs |-> secs]

returns_on_any_status(status) == TRUE

\* if result.status == TaskStatus.SUCCESS: return result
returns_now(status) == status = "success"

CallExecuteWithRetry(rc) ==
    /\ xpc \in {"idle", "returned"}
    /\ xpc' = "loop"
    /\ retry_count' = rc
    /\ attempt' = 0
    /\ last_result' = NoResult
    /\ xret' = NoResult
    /\ xlog' = <<>>
    /\ UNCHANGED <<pvars, evars, rvars, fvars, svars, cvars, nvars>>

\* one iteration of the loop over range(task_config.retry_count + 1)
ExecuteAttempt(status) ==
    /\ xpc = "loop"
    /\ attempt <= retry_count
    /\ LET res == [status |-> status, retry_count |-> attempt]
       IN IF returns_now(status)
          THEN /\ xret' = res
               /\ xpc' = "returned"
               /\ xlog' = Append(xlog, XEv("execute_task", status, 0))
               /\ UNCHANGED <<attempt, last_result>>
          ELSE /\ last_result' = res
               /\ IF attempt < retry_count
                  THEN /\ xlog' = xlog \o <<XEv("execute_task", status, 0),
                                            XEv("sleep", "ok", Pow2(attempt))>>
                       /\ attempt' = attempt + 1
                       /\ xpc' = "loop"
                       /\ xret' = xret
                  ELSE /\ xlog' = Append(xlog, XEv("execute_task", status, 0))
                       /\ xret' = res
                       /\ xpc' = "returned"
                       /\ attempt' = attempt
    /\ UNCHANGED retry_count
    /\ UNCHANGED <<pvars, evars, rvars, fvars, svars, cvars, nvars>>

\* ------------------------- specification: the fetcher and the executor
CoreIdle ==
    /\ PortfolioInit(DefaultCapital, DefaultRate)
    /\ EngineIdle
    /\ LimiterIdle

InitRetry ==
    /\ CoreIdle
    /\ OthersIdle

NextRetry ==
    \/ CallGetAllStocks
    \/ \E outcome \in Outcomes : Iteration(outcome)
    \/ \E cache \in CacheStates, tushare \in TushareOutcomes :
           AfterLoop(cache, tushare)
    \/ \E outcome \in Outcomes, tushare \in TushareOutcomes :
           GetStockData(outcome, tushare)
    \/ \E no_codes \in BOOLEAN, outcome \in Outcomes :
           GetRealtimeQuotes(no_codes, outcome)
    \/ \E no_stocks \in BOOLEAN, outcome \in Outcomes :
           GetPricesForDate(no_stocks, outcome)
    \/ \E rc \in 0..MaxRetryCount : CallExecuteWithRetry(rc)
    \/ \E status \in Statuses : ExecuteAttempt(status)

SpecRetry == InitRetry /\ [][NextRetry]_vars

\* ------------------------------- properties: fetcher and executor
IsRequest(e) == e.kind = "request"

\* the attempts of the candidate-list loop, in order
ListAttempts ==
    SelectSeq(events, LAMBDA e : IsRequest(e) /\ e.api = "ak.stock_zh_a_spot_em")

InCandidateList == fmethod = "get_all_stocks_with_market_cap"

LoopLeft == InCandidateList /\ fpc \in {"after_loop", "returned"}

\* the invocations of execute_task by execute_with_retry, in order
TaskRuns == SelectSeq(xlog, LAMBDA e : e.kind = "execute_task")

\* C11: every call of a data source that a fetcher method makes is
\* immediately preceded by a passage through _wait_for_rate_limit
Cex_C11_EveryRequestAfterAcquire ==
    \A j \in 1..Len(events) :
        IsRequest(events[j]) => j > 1 /\ events[j - 1].kind = "acquire"

Cex_C13_EmptyFrameNotRetried ==
    (InCandidateList /\ Len(ListAttempts) >= 1
                     /\ ListAttempts[1].outcome = "empty")
        => Len(ListAttempts) = 1

\* C13: the candidate-list loop treats an empty frame like a raised
\* error: the attempt is followed by the backoff sleep of base_delay * 2^i
\* seconds, and the loop is left with an empty frame only after
\* max_retries attempts
Thm_C13_EmptyFrameRetriedLikeFailure ==
    InCandidateList =>
        /\ \A j \in 1..Len(events) :
             (IsRequest(events[j]) /\ events[j].api = "ak.stock_zh_a_spot_em"
                                   /\ events[j].outcome = "empty")
               => /\ j < Len(events)
                  /\ events[j + 1].kind = "sleep"
                  /\ events[j + 1].secs = base_delay * Pow2((j - 2) \div 3)
        /\ (LoopLeft /\ \A j \in 1..Len(ListAttempts) :
                            ListAttempts[j].outcome # "data")
             => Len(ListAttempts) = max_retries

Wit_C13_EmptyThenData ==
    /\ InCandidateList
    /\ fpc = "returned"
    /\ Len(ListAttempts) = 2
    /\ ListAttempts[1].outcome = "empty"
    /\ ListAttempts[2].outcome = "data"
    /\ fret = "frame"


\* C28: in both retry loops the sleep after the failed attempt number a
\* lasts base_delay * 2^(a - 1) seconds (the base is 1 second in
\* execute_with_retry), and a sleep is always followed by a retry: once
\* the loop is over, its log does not end with a sleep
Cex_C28_SleepOnlyBeforeARetry ==
    /\ InCandidateList =>
         /\ \A j \in 1..Len(events) :
              events[j].kind = "sleep" =>
                  /\ j >= 3
                  /\ IsRequest(events[j - 1])
                  /\ events[j - 1].outcome # "data"
                  /\ events[j].secs = base_delay * Pow2((j \div 3) - 1)
         /\ LoopLeft =>
              \A j \in 1..Len(events) :
                  events[j].kind = "sleep" =>
                      \E i \in (j + 1)..Len(events) :
                          /\ IsRequest(events[i])
                          /\ events[i].api = "ak.stock_zh_a_spot_em"
    /\ \A j \in 1..Len(xlog) :
         xlog[j].kind = "sleep" =>
             /\ j >= 2
             /\ xlog[j - 1].kind = "execute_task"
             /\ xlog[j - 1].status # "success"
             /\ xlog[j].secs = Pow2((j \div 2) - 1)
    /\ xpc = "returned" => xlog[Len(xlog)].kind = "execute_task"

\* ------------------------------------------ BaseSelector: selection run
MaxPool == 3

\* listed stocks as the data source reports them: name as its characters
\* ("tui" is the one character 退), total and circulating market cap in
\* units of 1e8 yuan, volume
Listed ==
    { [code |-> "000001", name |-> <<"P", "A">>,
       total_market_cap |-> 100, market_cap |-> 80, volume |-> 2],
      [code |-> "000002", name |-> <<"*", "S", "T", "H">>,
       total_market_cap |-> 100, market_cap |-> 90, volume |-> 2],
      [code |-> "000003", name |-> <<"H", "tui">>,
       total_market_cap |-> 150, market_cap |-> 100, volume |-> 1],
      [code |-> "000004", name |-> <<"W", "K">>,
       total_market_cap |-> 150, market_cap |-> 130, volume |-> 2],
      [code |-> "000005", name |-> <<"Z", "X">>,
       total_market_cap |-> 60, market_cap |-> 50, volume |-> 3] }

Listings == {l \in SeqsOver(Listed) : Len(l) <= MaxPool}

\* where a non-empty pool came from: the Eastmoney listing (all columns),
\* cache/all_a_list.csv (no volume column), TuShare (code and name only)
PoolKinds == {"eastmoney", "cache", "tushare"}

\* strategy configs: market-cap bounds in units of 1e8 yuan
SelectorConfigs ==
    [min_market_cap : {None, 80}, max_market_cap : {None, 120},
     period : {60}, top_n : {1, 10}]

\* the reasons _apply_strategy gives with a score
StrategyReasons(score) ==
    IF score >= 90 THEN <<"volume", "sentiment">> ELSE <<"sentiment">>

\* len(stock_data) of the frame get_stock_data returned (0: empty frame)
Bars == {0, 29, 30}

\* what _apply_strategy returned as score
Scores == {0, 70, 90}

\* str.contains for a plain pattern
Contains(name, pat) ==
    \E i \in 1..(Len(name) - Len(pat) + 1) :
        SubSeq(name, i, i + Len(pat) - 1) = pat

\* the alternatives of the pattern 'ST|退|N |C '
NamePatterns == {<<"S", "T">>, <<"tui">>, <<"N", " ">>, <<"C", " ">>}

name_excluded_never(name) == FALSE

\* df[name_col].astype(str).str.contains('ST|退|N |C ', na=False)
name_excluded(name) == \E pat \in NamePatterns : Contains(name, pat)

\* Series.between(lo, hi): inclusive, False for NaN
between(x, lo, hi) == x # NaN /\ lo <= x /\ x <= hi

RECURSIVE InsertAsc(_, _)
InsertAsc(v, s) ==
    IF s = <<>> THEN <<v>>
    ELSE IF v <= Head(s) THEN <<v>> \o s
    ELSE <<Head(s)>> \o InsertAsc(v, Tail(s))

RECURSIVE Ascending(_)
Ascending(s) ==
    IF s = <<>> THEN <<>> ELSE InsertAsc(Head(s), Ascending(Tail(s)))

\* ten times Series.quantile(0.3) of a non-empty series (linear
\* interpolation between the two nearest order statistics)
quantile_03_x10(vals) ==
    LET a == Ascending(vals)
        n == Len(a)
        pos == 3 * (n - 1)
        lo == (pos \div 10) + 1
        hi == IF lo < n THEN lo + 1 ELSE n
    IN 10 * a[lo] + (pos % 10) * (a[hi] - a[lo])

\* the frame get_all_stocks_with_market_cap returns for a listing: name
\* filter, total-cap filter, volume filter, then the four unified columns
get_all_stocks_with_market_cap(kind, rows) ==
    IF rows = <<>> THEN EmptyFrame
    ELSE LET named == SelectSeq(rows, LAMBDA row : ~name_excluded(row.name))
             capped == IF kind = "tushare" THEN named
                       ELSE SelectSeq(named, LAMBDA row :
                                between(row.total_market_cap, 50, 200))
             vols == [j \in 1..Len(capped) |-> capped[j].volume]
             active == IF kind = "eastmoney" /\ capped # <<>>
                       THEN SelectSeq(capped, LAMBDA row :
                                10 * row.volume >= quantile_03_x10(vols))
                       ELSE capped
             unified == [j \in 1..Len(active) |->
                           [code |-> active[j].code,
                            name |-> active[j].name,
                            total_market_cap |->
                                IF kind = "tushare" THEN NaN
                                ELSE active[j].total_market_cap,
                            market_cap |->
                                IF kind = "tushare" THEN NaN
                                ELSE active[j].market_cap]]
         IN [has_market_cap |-> TRUE,
             rows |-> IF kind = "tushare" THEN unified
                      ELSE SelectSeq(unified, LAMBDA row :
                               row.market_cap # NaN)]

Gt(x, y) == x # NaN /\ x > y

\* df['market_cap'] >= min_cap: False for NaN
Ge(x, y) == x # NaN /\ x >= y

\* df['market_cap'] <= max_cap: False for NaN
Le(x, y) == x # NaN /\ x <= y

RECURSIVE SmallestCap(_)
SmallestCap(rows) ==
    IF Len(rows) = 1 THEN rows[1].market_cap
    ELSE LET m == SmallestCap(Tail(rows))
         IN IF rows[1].market_cap < m THEN rows[1].market_cap ELSE m

_filter_above_smallest_cap(frame, cfg) ==
    IF frame.rows = <<>> THEN frame
    ELSE [frame EXCEPT !.rows =
            SelectSeq(frame.rows, LAMBDA row :
                row.market_cap > SmallestCap(frame.rows))]

\* BaseSelector._filter_by_market_cap
_filter_by_market_cap(frame, cfg) ==
    IF ~frame.has_market_cap THEN frame
    ELSE LET above == IF cfg.min_market_cap # None
                      THEN SelectSeq(frame.rows, LAMBDA row :
                               Ge(row.market_cap, cfg.min_market_cap))
                      ELSE frame.rows
             below == IF cfg.max_market_cap # None
                      THEN SelectSeq(above, LAMBDA row :
                               Le(row.market_cap, cfg.max_market_cap))
                      ELSE above
         IN [frame EXCEPT !.rows = below]

insufficient_only_when_empty(bars, period) == bars = 0

\* stock_data.empty or len(stock_data) < period / 2
insufficient(bars, period) == bars = 0 \/ 2 * bars < period

\* BaseSelector._score_single_stock for a frame of `bars` rows on which
\* _apply_strategy returns `score`: no result, or one result
_score_single_stock(stock_info, cfg, bars, score) ==
    IF insufficient(bars, cfg.period) THEN <<>>
    ELSE IF score > 0
         THEN <<[code |-> stock_info.code,
                 name |-> stock_info.name,
                 score |-> score,
                 reasons |-> StrategyReasons(score),
                 price |-> 10,
                 change_pct |-> 1,
                 market_cap |-> stock_info.market_cap]>>
         ELSE <<>>

RECURSIVE InsertByScoreAfterTies(_, _)
InsertByScoreAfterTies(x, s) ==
    IF s = <<>> THEN <<x>>
    ELSE IF Head(s).score < x.score THEN <<x>> \o s
    ELSE <<Head(s)>> \o InsertByScoreAfterTies(x, Tail(s))

\* sorted(..., key=score, reverse=True): stable, highest score first
RECURSIVE InsertByScore(_, _)
InsertByScore(x, s) ==
    IF s = <<>> THEN <<x>>
    ELSE IF Head(s).score <= x.score THEN <<x>> \o s
    ELSE <<Head(s)>> \o InsertByScore(x, Tail(s))

RECURSIVE sorted_by_score(_)
sorted_by_score(s) ==
    IF s = <<>> THEN <<>>
    ELSE InsertByScore(Head(s), sorted_by_score(Tail(s)))

\* BaseSelector._filter_and_sort
_filter_and_sort(scored, cfg) ==
    LET sorted_stocks == sorted_by_score(scored)
    IN SubSeq(sorted_stocks, 1,
              IF Len(sorted_stocks) < cfg.top_n THEN Len(sorted_stocks)
              ELSE cfg.top_n)

\* the entry of the spot frame for one code: 最新价 and 涨跌幅
Quote == [price |-> 11, change_pct |-> 2]

\* what ak.stock_zh_a_spot_em gives get_realtime_quotes: an exception, or
\* a frame with a row for each of some codes
SpotFrames ==
    {[ok |-> FALSE, codes |-> {}]} \cup
    [ok : {TRUE}, codes : SUBSET {row.code : row \in Listed}]

\* the spot frames that differ in their rows for the scored stocks (the
\* rows of other codes are dropped by get_realtime_quotes)
SpotFramesFor(scored) ==
    {spot \in SpotFrames :
        spot.codes \subseteq {scored[j].code : j \in 1..Len(scored)}}

\* StockDataFetcher.get_realtime_quotes: {} for no codes, for an
\* exception and for an empty frame, else the quotes of the rows of the
\* spot frame whose code is among stock_codes
get_realtime_quotes(stock_codes, spot) ==
    IF stock_codes = <<>> \/ ~spot.ok \/ spot.codes = {} THEN EmptyMap
    ELSE [code \in {stock_codes[j] : j \in 1..Len(stock_codes)}
                      \cap spot.codes |-> Quote]

\* _enrich_results_with_realtime_data: the codes it asks quotes for
stock_codes_of(final_selection) ==
    [j \in 1..Len(final_selection) |-> final_selection[j].code]

EnrichEveryEntry(final_selection, realtime_quotes) ==
    [j \in 1..Len(final_selection) |->
        [final_selection[j] EXCEPT !.price = Quote.price,
                                   !.change_pct = Quote.change_pct]]

\* BaseSelector._enrich_results_with_realtime_data once the quotes are
\* there: an entry with a quote takes its price and change_pct
_enrich_results_with_realtime_data(final_selection, realtime_quotes) ==
    IF DOMAIN realtime_quotes = {} THEN final_selection
    ELSE [j \in 1..Len(final_selection) |->
             LET stock == final_selection[j]
             IN IF stock.code \in DOMAIN realtime_quotes
                THEN [stock EXCEPT
                         !.price = realtime_quotes[stock.code].price,
                         !.change_pct =
                             realtime_quotes[stock.code].change_pct]
                ELSE stock]

\* the pool of a selection run is fetched, by the selector (all_stocks is
\* None) or by the caller, BacktestEngine.run, which gives up on an empty
\* pool
GetPool(from, kind, rows) ==
    /\ spc = "idle"
    /\ pool_from' = from
    /\ listing' = rows
    /\ all_stocks' = get_all_stocks_with_market_cap(kind, rows)
    /\ spc' = IF from = "caller" /\ all_stocks'.rows = <<>> THEN "not_run"
              ELSE "pool"
    /\ sel_config' = NoConfig
    /\ candidate_stocks' = EmptyFrame
    /\ task_k' = 1
    /\ fetches' = <<>>
    /\ scored_stocks' = <<>>
    /\ selection' = <<>>
    /\ quote_calls' = <<>>
    /\ quotes' = EmptyMap
    /\ UNCHANGED <<pvars, evars, rvars, fvars, xvars, cvars, wvars, kvars, gvars>>

\* run_selection up to the scoring: the market-cap filter
RunFilter(cfg) ==
    /\ spc = "pool"
    /\ sel_config' = cfg
    /\ candidate_stocks' = _filter_by_market_cap(all_stocks, cfg)
    /\ spc' = IF candidate_stocks'.rows = <<>> THEN "done" ELSE "scoring"
    /\ UNCHANGED <<pool_from, listing, all_stocks, task_k, fetches,
                   scored_stocks, selection>>
    /\ UNCHANGED <<pvars, evars, rvars, fvars, xvars, cvars, nvars>>

\* _score_stocks: the next task of executor.map, whose results come in
\* the order of the tasks
ScoreOne(bars, score) ==
    /\ spc = "scoring"
    /\ task_k <= Len(candidate_stocks.rows)
    /\ LET stock_info == candidate_stocks.rows[task_k]
       IN /\ fetches' = Append(fetches,
                 [code |-> stock_info.code, name |-> stock_info.name,
                  bars |-> bars,
                  score |-> IF insufficient(bars, sel_config.period)
                            THEN 0 ELSE score])
          /\ scored_stocks' = scored_stocks \o
                 _score_single_stock(stock_info, sel_config, bars, score)
    /\ task_k' = task_k + 1
    /\ spc' = IF task_k = Len(candidate_stocks.rows) THEN "scored"
              ELSE "scoring"
    /\ UNCHANGED <<pool_from, listing, all_stocks, sel_config,
                   candidate_stocks, selection>>
    /\ UNCHANGED <<pvars, evars, rvars, fvars, xvars, cvars, nvars>>

\* run_selection after the scoring: [] when nothing was scored, else
\* sort and truncate, then _enrich_results_with_realtime_data (one
\* get_realtime_quotes call for the codes of the truncated list) and
\* return
FinishSelection(spot) ==
    /\ spc = "scored"
    /\ IF scored_stocks = <<>>
       THEN /\ selection' = <<>>
            /\ UNCHANGED <<quote_calls, quotes>>
       ELSE LET final_selection ==
                    _filter_and_sort(scored_stocks, sel_config)
                stock_codes == stock_codes_of(final_selection)
            IN /\ quote_calls' = Append(quote_calls, stock_codes)
               /\ quotes' = get_realtime_quotes(stock_codes, spot)
               /\ selection' = _enrich_results_with_realtime_data(
                                  final_selection, quotes')
    /\ spc' = "done"
    /\ UNCHANGED <<pool_from, listing, all_stocks, sel_config,
                   candidate_stocks, task_k, fetches, scored_stocks>>
    /\ UNCHANGED <<pvars, evars, rvars, fvars, xvars, cvars, wvars, kvars, gvars>>

\* ------------------------------------ specification: selection runs
InitSelection ==
    /\ CoreIdle
    /\ OthersIdle

NextSelection ==
    \/ \E from \in {"selector", "caller"}, kind \in PoolKinds,
          rows \in Listings : GetPool(from, kind, rows)
    \/ \E cfg \in SelectorConfigs : RunFilter(cfg)
    \/ \E bars \in Bars, score \in Scores : ScoreOne(bars, score)
    \/ \E spot \in SpotFramesFor(scored_stocks) : FinishSelection(spot)

SpecSelection == InitSelection /\ [][NextSelection]_vars

\* --------------------------------------- properties: selection runs
Filtered == spc \in {"scoring", "scored", "done"}

\* the codes of a sequence of rows or results
CodesOf(s) == [j \in 1..Len(s) |-> s[j].code]

\* the claim's notion of an insufficient history: missing or empty, or
\* fewer than period / 2 bars
TooShort(f) == f.bars = 0 \/ 2 * f.bars < sel_config.period

\* C14: in the scoring stage every candidate is fetched once, in order,
\* whatever the earlier fetches returned; a candidate whose history is
\* empty or shorter than period/2 gets no result, the results are those
\* of the other candidates alone, the scoring goes through all the
\* candidates and the run returns a list drawn from these results
Thm_C14_InsufficientHistorySkipped ==
    Filtered =>
        /\ CodesOf(fetches) =
               SubSeq(CodesOf(candidate_stocks.rows), 1, task_k - 1)
        /\ LET ok == SelectSeq(fetches,
                               LAMBDA f : ~TooShort(f) /\ f.score > 0)
           IN /\ CodesOf(scored_stocks) = CodesOf(ok)
              /\ \A j \in 1..Len(ok) : scored_stocks[j].score = ok[j].score
        /\ spc \in {"scored", "done"} /\ candidate_stocks.rows # <<>> =>
               Len(fetches) = Len(candidate_stocks.rows)
        /\ spc = "done" =>
               /\ Len(selection) <=
                      Len(SelectSeq(fetches, LAMBDA f : ~TooShort(f)))
               /\ \A j \in 1..Len(selection) :
                      \E i \in 1..Len(scored_stocks) :
                          /\ scored_stocks[i].code = selection[j].code
                          /\ scored_stocks[i].score = selection[j].score
               /\ scored_stocks # <<>> => selection # <<>>

Wit_C14_OneShortHistoryAmongThree ==
    /\ spc = "done"
    /\ Len(fetches) = 3
    /\ fetches[2].bars = 29
    /\ CodesOf(selection) = <<fetches[3].code, fetches[1].code>>

InBounds(row) ==
    /\ sel_config.min_market_cap # None =>
           row.market_cap # NaN /\ sel_config.min_market_cap <= row.market_cap
    /\ sel_config.max_market_cap # None =>
           row.market_cap # NaN /\ row.market_cap <= sel_config.max_market_cap

\* C15: the candidates after the market-cap filter are exactly the rows
\* of the pool whose market cap lies within the configured bounds (an
\* unconfigured bound does not constrain), in the order of the pool; the
\* output is this function of pool and config
Thm_C15_FilterKeepsExactlyRowsInBounds ==
    Filtered =>
        /\ candidate_stocks.rows = SelectSeq(all_stocks.rows, InBounds)
        /\ candidate_stocks.has_market_cap = all_stocks.has_market_cap

Wit_C15_BothBoundsCutThePool ==
    /\ spc = "scoring"
    /\ sel_config.min_market_cap # None
    /\ sel_config.max_market_cap # None
    /\ Len(all_stocks.rows) = 3
    /\ Len(candidate_stocks.rows) = 1
    /\ candidate_stocks.rows[1].market_cap = sel_config.min_market_cap

\* C16: filtering the filtered candidates again, with the same config,
\* gives the same candidates
Thm_C16_FilterIdempotent ==
    Filtered =>
        _filter_by_market_cap(candidate_stocks, sel_config) = candidate_stocks

Wit_C16_FilteredPoolOfTwo ==
    /\ spc = "scoring"
    /\ sel_config.min_market_cap # None
    /\ sel_config.max_market_cap = None
    /\ Len(all_stocks.rows) = 3
    /\ Len(candidate_stocks.rows) = 2

\* a display name with a special-treatment or a delisting marker
Blacklisted(name) == Contains(name, <<"S", "T">>) \/ Contains(name, <<"tui">>)

\* C17: no stock whose name carries an ST or a delisting marker is
\* fetched for scoring, scored or returned by a selection run, whoever
\* fetched the pool
Thm_C17_BlacklistedNeverScored ==
    /\ \A j \in 1..Len(all_stocks.rows) : ~Blacklisted(all_stocks.rows[j].name)
    /\ \A j \in 1..Len(fetches) : ~Blacklisted(fetches[j].name)
    /\ \A j \in 1..Len(scored_stocks) : ~Blacklisted(scored_stocks[j].name)
    /\ \A j \in 1..Len(selection) : ~Blacklisted(selection[j].name)

Wit_C17_CallerPoolWithBlacklistedNames ==
    /\ spc = "done"
    /\ pool_from = "caller"
    /\ \E j \in 1..Len(listing) : Blacklisted(listing[j].name)
    /\ Len(listing) = 3
    /\ selection # <<>>


\* the position of a code among the filtered candidates
PoolIndex(code) ==
    CHOOSE j \in 1..Len(candidate_stocks.rows) :
        candidate_stocks.rows[j].code = code

SelectedCodes == {selection[j].code : j \in 1..Len(selection)}

\* highest score first, at most top_n entries, and nothing discarded
\* scored higher than something kept
RankedAndTruncated ==
    /\ \A i, j \in 1..Len(selection) :
           i < j => selection[i].score >= selection[j].score
    /\ Len(selection) <= sel_config.top_n
    /\ Len(selection) = (IF Len(scored_stocks) < sel_config.top_n
                          THEN Len(scored_stocks) ELSE sel_config.top_n)
    /\ \A k \in 1..Len(scored_stocks) :
           scored_stocks[k].code \notin SelectedCodes =>
               \A j \in 1..Len(selection) :
                   scored_stocks[k].score <= selection[j].score

\* C21 as stated: the result is ranked and truncated, and entries of
\* equal score are in ascending order of their codes.  The codes are
\* "00000d" with one digit d, compared by the place of d in "12345"
CodeRank(code) ==
    CHOOSE d \in 1..5 : code = <<"000001", "000002", "000003",
                                 "000004", "000005">>[d]

Cex_C21_TiesBySymbolAscending ==
    spc = "done" =>
        /\ RankedAndTruncated
        /\ \A i, j \in 1..Len(selection) :
               (i < j /\ selection[i].score = selection[j].score) =>
                   CodeRank(selection[i].code) < CodeRank(selection[j].code)

\* C21: the result of a selection run is ordered by score descending,
\* entries of equal score keep the order of the candidate pool (the sort
\* is stable and has no other key), and the list is cut to top_n: no
\* discarded candidate has a higher score than a kept one
Thm_C21_RankedStableAndTruncated ==
    spc = "done" =>
        /\ RankedAndTruncated
        /\ \A i, j \in 1..Len(selection) :
               (i < j /\ selection[i].score = selection[j].score) =>
                   PoolIndex(selection[i].code) < PoolIndex(selection[j].code)

Wit_C21_TieKeptInPoolOrder ==
    /\ spc = "done"
    /\ Len(selection) = 3
    /\ selection[1].score > selection[2].score
    /\ selection[2].score = selection[3].score
    /\ CodeRank(selection[2].code) > CodeRank(selection[3].code)

\* the result of the run before the enrichment: sorted and truncated
Truncated == _filter_and_sort(scored_stocks, sel_config)

\* an entry apart from the two fields the enrichment may set
Unquoted(stock) ==
    [code |-> stock.code, name |-> stock.name, score |-> stock.score,
     reasons |-> stock.reasons, market_cap |-> stock.market_cap]

\* C24: the enrichment follows the truncation and makes one quote request,
\* for exactly the codes of the truncated result; it sets only price and
\* change_pct, and only of the entries a quote came back for; members,
\* order, score and reasons stay; without quotes the result is unchanged
Thm_C24_EnrichmentOnlySetsQuotedPrices ==
    /\ spc # "done" => quote_calls = <<>>
    /\ spc = "done" /\ scored_stocks = <<>> =>
           quote_calls = <<>> /\ selection = <<>>
    /\ spc = "done" /\ scored_stocks # <<>> =>
        /\ quote_calls = <<CodesOf(Truncated)>>
        /\ Len(quote_calls[1]) <= sel_config.top_n
        /\ DOMAIN quotes \subseteq
               {Truncated[j].code : j \in 1..Len(Truncated)}
        /\ Len(selection) = Len(Truncated)
        /\ \A j \in 1..Len(selection) :
            /\ Unquoted(selection[j]) = Unquoted(Truncated[j])
            /\ IF selection[j].code \in DOMAIN quotes
               THEN /\ selection[j].price = quotes[selection[j].code].price
                    /\ selection[j].change_pct =
                           quotes[selection[j].code].change_pct
               ELSE selection[j] = Truncated[j]
        /\ DOMAIN quotes = {} => selection = Truncated

\* a run that discarded a scored candidate, asked no quote for it, and
\* got quotes for one of its two results only
Wit_C24_OneOfTwoResultsQuoted ==
    /\ spc = "done"
    /\ Len(candidate_stocks.rows) = 3
    /\ Len(scored_stocks) = 2
    /\ Len(selection) = 2
    /\ selection[1].price = Quote.price
    /\ selection[1].change_pct = Quote.change_pct
    /\ selection[2].price # Quote.price
    /\ Len(quote_calls) = 1


\* ------------------------------- BaseSelector._score_stocks: the workers
\* the most worker threads a config asks for
MaxWorkers == 2

\* the candidates that passed the filter: rows of the pool, in an order
\* that is not the order of their codes
CandidateLists ==
    {l \in Listings :
        /\ Len(l) \in {2, 3}
        /\ l[1].code = "000004"
        /\ \A j \in 1..Len(l) : l[j].code \in {"000001", "000004", "000005"}}

\* what get_stock_data and _apply_strategy give for a stock: the length of
\* its history and its score
HistCases == {[bars |-> 29, score |-> 90], [bars |-> 30, score |-> 0],
              [bars |-> 30, score |-> 70], [bars |-> 30, score |-> 90]}

\* the config of the run
WorkerConfig ==
    [min_market_cap |-> None, max_market_cap |-> None,
     period |-> 60, top_n |-> 2]

NoTask == [task |-> 0, phase |-> "idle"]

Pending == [done |-> FALSE, result |-> <<>>]

\* queue.get leaves the other work items
queue_keeps_item(q) == q

queue_rest(q) == Tail(q)

\* the order in which the futures are awaited
as_completed(n, done_order) == done_order

\* executor.map yields the results in the order of the tasks
map_order(n, done_order) == [k \in 1..n |-> k]

\* _score_stocks up to the for loop: executor.map submits every task
ScoreStocks(cands, hs, mw) ==
    /\ wpc = "idle"
    /\ Len(hs) = Len(cands)
    /\ tasks' = cands
    /\ hists' = hs
    /\ max_workers' = mw
    /\ work_queue' = [k \in 1..Len(cands) |-> k]
    /\ workers' = [w \in 1..mw |-> NoTask]
    /\ futures' = [k \in 1..Len(cands) |-> Pending]
    /\ completed' = <<>>
    /\ next_future' = 1
    /\ results' = <<>>
    /\ starts' = <<>>
    /\ wret' = <<>>
    /\ wpc' = "collecting"
    /\ UNCHANGED <<pvars, evars, rvars, fvars, xvars, svars, cvars, qvars, kvars, gvars>>

\* a worker thread without a task takes the next work item
WorkerTake(w) ==
    /\ wpc = "collecting"
    /\ w \in 1..Len(workers)
    /\ workers[w].phase = "idle"
    /\ work_queue # <<>>
    /\ workers' = [workers EXCEPT
                      ![w] = [task |-> Head(work_queue), phase |-> "scoring"]]
    /\ work_queue' = queue_rest(work_queue)
    /\ starts' = Append(starts, [task |-> Head(work_queue), worker |-> w])
    /\ UNCHANGED <<wpc, tasks, hists, max_workers, futures, completed,
                   next_future, results, wret>>
    /\ UNCHANGED <<pvars, evars, rvars, fvars, xvars, svars, cvars, qvars, kvars, gvars>>

\* the worker's _score_single_stock call returns and sets the future
WorkerSetResult(w) ==
    /\ w \in 1..Len(workers)
    /\ workers[w].phase = "scoring"
    /\ LET k == workers[w].task
       IN /\ futures' = [futures EXCEPT ![k] =
                 [done |-> TRUE,
                  result |-> _score_single_stock(tasks[k], WorkerConfig,
                                 hists[k].bars, hists[k].score)]]
          /\ completed' = Append(completed, k)
    /\ workers' = [workers EXCEPT ![w].phase = "reported"]
    /\ UNCHANGED <<wpc, tasks, hists, max_workers, work_queue, next_future,
                   results, starts, wret>>
    /\ UNCHANGED <<pvars, evars, rvars, fvars, xvars, svars, cvars, qvars, kvars, gvars>>

\* the worker is through with its work item
WorkerDone(w) ==
    /\ w \in 1..Len(workers)
    /\ workers[w].phase = "reported"
    /\ workers' = [workers EXCEPT ![w] = NoTask]
    /\ UNCHANGED <<wpc, tasks, hists, max_workers, work_queue, futures,
                   completed, next_future, results, starts, wret>>
    /\ UNCHANGED <<pvars, evars, rvars, fvars, xvars, svars, cvars, qvars, kvars, gvars>>

\* one pass of the for loop: the next result of executor.map, appended
\* if it is not None
CollectResult ==
    /\ wpc = "collecting"
    /\ next_future <= Len(tasks)
    /\ LET order == map_order(Len(tasks), completed)
       IN /\ next_future <= Len(order)
          /\ futures[order[next_future]].done
          /\ results' = results \o futures[order[next_future]].result
    /\ next_future' = next_future + 1
    /\ UNCHANGED <<wpc, tasks, hists, max_workers, work_queue, workers,
                   futures, completed, starts, wret>>
    /\ UNCHANGED <<pvars, evars, rvars, fvars, xvars, svars, cvars, qvars, kvars, gvars>>

\* the for loop is over; leaving the with block joins the worker threads;
\* run_selection then returns [] or the sorted, truncated results
ReturnScored ==
    /\ wpc = "collecting"
    /\ next_future > Len(tasks)
    /\ \A w \in 1..Len(workers) : workers[w].phase = "idle"
    /\ wret' = IF results = <<>> THEN <<>>
               ELSE _filter_and_sort(results, WorkerConfig)
    /\ wpc' = "returned"
    /\ UNCHANGED <<tasks, hists, max_workers, work_queue, workers, futures,
                   completed, next_future, results, starts>>
    /\ UNCHANGED <<pvars, evars, rvars, fvars, xvars, svars, cvars, qvars, kvars, gvars>>

\* --------------------------------- specification: the scoring workers
InitWorkers ==
    /\ CoreIdle
    /\ OthersIdle

NextWorkers ==
    \/ \E cands \in CandidateLists, mw \in 1..MaxWorkers :
          \E hs \in [1..Len(cands) -> HistCases] : ScoreStocks(cands, hs, mw)
    \/ \E w \in 1..MaxWorkers : WorkerTake(w)
    \/ \E w \in 1..MaxWorkers : WorkerSetResult(w)
    \/ \E w \in 1..MaxWorkers : WorkerDone(w)
    \/ CollectResult
    \/ ReturnScored

SpecWorkers == InitWorkers /\ [][NextWorkers]_vars

\* ------------------------------- properties: the scoring workers
\* the workers that are scoring a task
Scoring == {w \in 1..Len(workers) : workers[w].phase = "scoring"}

\* how often the scoring of task k was started
StartsOf(k) == Cardinality({j \in 1..Len(starts) : starts[j].task = k})

\* C22: every candidate is scored at most once, so by one worker only,
\* and never by two at a time; at most max_workers are being scored; the
\* run goes on only when every task is done and every worker through; the
\* collected list has at most one entry per candidate, with score > 0
Thm_C22_EachCandidateScoredOnceByOneWorker ==
    /\ \A k \in 1..Len(tasks) : StartsOf(k) <= 1
    /\ \A w1, w2 \in Scoring : workers[w1].task = workers[w2].task => w1 = w2
    /\ Cardinality(Scoring) <= max_workers
    /\ \A j \in 1..Len(results) : results[j].score > 0
    /\ \A i, j \in 1..Len(results) :
           results[i].code = results[j].code => i = j
    /\ \A j \in 1..Len(results) :
           \E k \in 1..Len(tasks) :
               tasks[k].code = results[j].code /\ futures[k].done
    /\ wpc = "returned" =>
           /\ \A k \in 1..Len(tasks) : futures[k].done /\ StartsOf(k) = 1
           /\ \A w \in 1..Len(workers) : workers[w].phase = "idle"
           /\ work_queue = <<>>

\* two workers were scoring at once, and the run has returned a result
\* for each of their candidates
Wit_C22_TwoWorkersScoredThreeTasks ==
    /\ wpc = "returned"
    /\ Len(tasks) = 3
    /\ max_workers = 2
    /\ Len(results) = 3
    /\ {starts[j].worker : j \in 1..Len(starts)} = {1, 2}

\* the results of scoring the tasks one after the other
RECURSIVE ScoredInTurn(_, _)
ScoredInTurn(ts, hs) ==
    IF ts = <<>> THEN <<>>
    ELSE _score_single_stock(Head(ts), WorkerConfig,
                             Head(hs).bars, Head(hs).score)
         \o ScoredInTurn(Tail(ts), Tail(hs))

\* C23: whatever the interleaving of the workers and the order in which
\* they complete, the run returns the list that the candidates, their
\* histories and the config determine
Thm_C23_RankingSameForEveryInterleaving ==
    wpc = "returned" =>
        /\ results = ScoredInTurn(tasks, hists)
        /\ wret = IF results = <<>> THEN <<>>
                  ELSE _filter_and_sort(ScoredInTurn(tasks, hists),
                                        WorkerConfig)

\* a run in which a later task completed before an earlier one of the
\* same score
Wit_C23_CompletedOutOfOrder ==
    /\ wpc = "returned"
    /\ Len(tasks) = 3
    /\ completed[1] = 2
    /\ completed[2] = 1
    /\ Len(wret) = 2
    /\ wret[1].score = wret[2].score
    /\ wret[1].code = tasks[1].code
    /\ wret[2].code = tasks[2].code

\* ------------------------------- TaskExecutor.execute_task: threads
\* the ids of the configured tasks
TaskIds == {"daily", "hourly"}

\* how the try block of execute_task can end
TaskOutcomes ==
    {"success", "non_zero_exit", "timeout", "unmet_dependency", "exception"}

\* result.status after an outcome
status_of(outcome) == IF outcome = "success" THEN "SUCCESS" ELSE "FAILED"

\* d without the key id: del d[id]
Without(d, id) == [k \in DOMAIN d \ {id} |-> d[k]]

\* d[id] = v
With(d, id, v) == [k \in DOMAIN d \cup {id} |-> IF k = id THEN v ELSE d[k]]

\* a thread calls execute_task: the result starts as RUNNING
CallExecuteTask(t, id) ==
    /\ epc[t] = "idle"
    /\ epc' = [epc EXCEPT ![t] = "check"]
    /\ etask' = [etask EXCEPT ![t] = id]
    /\ estatus' = [estatus EXCEPT ![t] = "RUNNING"]
    /\ UNCHANGED running_tasks
    /\ UNCHANGED <<pvars, evars, rvars, fvars, xvars, svars, cvars, qvars, wvars, gvars>>

\* if task_config.id in self.running_tasks: return CANCELLED
CheckRunning(t) ==
    /\ epc[t] = "check"
    /\ IF etask[t] \in DOMAIN running_tasks
       THEN /\ estatus' = [estatus EXCEPT ![t] = "CANCELLED"]
            /\ epc' = [epc EXCEPT ![t] = "idle"]
       ELSE /\ epc' = [epc EXCEPT ![t] = "mark"]
            /\ UNCHANGED estatus
    /\ UNCHANGED <<running_tasks, etask>>
    /\ UNCHANGED <<pvars, evars, rvars, fvars, xvars, svars, cvars, qvars, wvars, gvars>>

\* self.running_tasks[task_config.id] = result
MarkRunning(t) ==
    /\ epc[t] = "mark"
    /\ running_tasks' = With(running_tasks, etask[t], t)
    /\ epc' = [epc EXCEPT ![t] = "try"]
    /\ UNCHANGED <<etask, estatus>>
    /\ UNCHANGED <<pvars, evars, rvars, fvars, xvars, svars, cvars, qvars, wvars, gvars>>

\* the try block up to Popen: an unmet dependency or another exception
\* ends it as FAILED, else the command is started
StartCommand(t, outcome) ==
    /\ epc[t] = "try"
    /\ IF outcome \in {"unmet_dependency", "exception"}
       THEN /\ estatus' = [estatus EXCEPT ![t] = status_of(outcome)]
            /\ epc' = [epc EXCEPT ![t] = "finally"]
       ELSE /\ epc' = [epc EXCEPT ![t] = "command"]
            /\ UNCHANGED estatus
    /\ UNCHANGED <<running_tasks, etask>>
    /\ UNCHANGED <<pvars, evars, rvars, fvars, xvars, svars, cvars, qvars, wvars, gvars>>

\* process.communicate returns, or times out and the process is killed
CommandEnds(t, outcome) ==
    /\ epc[t] = "command"
    /\ outcome \in {"success", "non_zero_exit", "timeout"}
    /\ estatus' = [estatus EXCEPT ![t] = status_of(outcome)]
    /\ epc' = [epc EXCEPT ![t] = "finally"]
    /\ UNCHANGED <<running_tasks, etask>>
    /\ UNCHANGED <<pvars, evars, rvars, fvars, xvars, svars, cvars, qvars, wvars, gvars>>

\* finally: if task_config.id in self.running_tasks
FinallyCheck(t) ==
    /\ epc[t] = "finally"
    /\ epc' = [epc EXCEPT ![t] =
                  IF etask[t] \in DOMAIN running_tasks THEN "del" ELSE "save"]
    /\ UNCHANGED <<running_tasks, etask, estatus>>
    /\ UNCHANGED <<pvars, evars, rvars, fvars, xvars, svars, cvars, qvars, wvars, gvars>>

\* del self.running_tasks[task_config.id]: a KeyError when the key has
\* gone since the test leaves execute_task without saving the result
DeleteMark(t) ==
    /\ epc[t] = "del"
    /\ IF etask[t] \in DOMAIN running_tasks
       THEN /\ running_tasks' = Without(running_tasks, etask[t])
            /\ epc' = [epc EXCEPT ![t] = "save"]
            /\ UNCHANGED estatus
       ELSE /\ estatus' = [estatus EXCEPT ![t] = "KeyError"]
            /\ epc' = [epc EXCEPT ![t] = "idle"]
            /\ UNCHANGED running_tasks
    /\ UNCHANGED etask
    /\ UNCHANGED <<pvars, evars, rvars, fvars, xvars, svars, cvars, qvars, wvars, gvars>>

\* save_task_result, and return result
SaveAndReturn(t) ==
    /\ epc[t] = "save"
    /\ epc' = [epc EXCEPT ![t] = "idle"]
    /\ UNCHANGED <<running_tasks, etask, estatus>>
    /\ UNCHANGED <<pvars, evars, rvars, fvars, xvars, svars, cvars, qvars, wvars, gvars>>

\* --------------------------------- specification: execute_task threads
InitTaskThreads ==
    /\ CoreIdle
    /\ OthersIdle

NextTaskThreads ==
    \/ \E t \in ExecThreads, id \in TaskIds : CallExecuteTask(t, id)
    \/ \E t \in ExecThreads : CheckRunning(t)
    \/ \E t \in ExecThreads : MarkRunning(t)
    \/ \E t \in ExecThreads, outcome \in TaskOutcomes : StartCommand(t, outcome)
    \/ \E t \in ExecThreads, outcome \in TaskOutcomes : CommandEnds(t, outcome)
    \/ \E t \in ExecThreads : FinallyCheck(t)
    \/ \E t \in ExecThreads : DeleteMark(t)
    \/ \E t \in ExecThreads : SaveAndReturn(t)

SpecTaskThreads == InitTaskThreads /\ [][NextTaskThreads]_vars

\* --------------------------------- properties: execute_task threads
\* the threads whose execution of the task id is in progress: marked as
\* running and not yet past the removal of the mark
Executing(id) ==
    {t \in ExecThreads :
        etask[t] = id /\ epc[t] \in {"try", "command", "finally", "del"}}

\* C30: at most one execution of a task id is in progress at any time,
\* whichever threads call execute_task, and the id is in running_tasks
\* only while an execution of it is in progress
Cex_C30_OneExecutionPerTaskId ==
    \A id \in TaskIds :
        /\ Cardinality(Executing(id)) <= 1
        /\ Executing(id) = {} => id \notin DOMAIN running_tasks

\* ------------------------------------------------ scoring of one stock
\* what the indicators of StockScorer.calculate_score show on a frame:
\* enough rows (30 or more), MACD below zero / above zero / crossed above
\* zero on the last bar, the RSI zone, and the five yes/no signals
ScorerSignals ==
    [enough : BOOLEAN,
     macd : {"below", "above", "cross"},
     rsi : {"overbought", "oversold", "normal"},
     kdj_cross : BOOLEAN, j_low : BOOLEAN,
     bollinger : BOOLEAN, volume : BOOLEAN, ma : BOOLEAN]

Pts(b, n) == IF b THEN n ELSE 0

\* StockScorer.calculate_score: the score it returns
calculate_score(sig) ==
    IF ~sig.enough THEN 0
    ELSE Pts(sig.macd = "cross", 25) + Pts(sig.macd # "below", 10)
         + (IF sig.rsi = "overbought" THEN 5
            ELSE IF sig.rsi = "oversold" THEN 20 ELSE 10)
         + Pts(sig.kdj_cross, 20) + Pts(sig.j_low, 5)
         + Pts(sig.bollinger, 15)
         + Pts(sig.volume, 10)
         + Pts(sig.ma, 10)

\* ShortTermTradingStrategy.weights, in hundredths, in the order the six
\* analyses are added up
ShortTermWeights == <<25, 20, 20, 15, 10, 10>>

\* the points an analysis of the short-term strategy adds up before its
\* `return min(100, score)`
RawSubScores == {60, 135}

min(a, b) == IF a < b THEN a ELSE b

RECURSIVE WeightedSum(_, _)
WeightedSum(sub, w) ==
    IF sub = <<>> THEN 0
    ELSE min(100, Head(sub)) * Head(w) + WeightedSum(Tail(sub), Tail(w))

\* ShortTermTradingStrategy._apply_strategy: total_score, in hundredths
short_term_total_score(sub) == WeightedSum(sub, ShortTermWeights)

\* the COMPREHENSIVE_STRATEGY_CONFIG a selector can meet, after
\* load_user_config: the one of config.py (weights in hundredths), ones
\* that user_config.py has changed, and an empty one
ShippedWeights ==
    [technical |-> 60, fundamental |-> 25, sentiment |-> 10, industry |-> 5]

StrategyConfigs ==
    { [empty |-> FALSE, weights |-> ShippedWeights,
       min_score |-> 75, max_stocks |-> 8],
      [empty |-> FALSE, weights |-> [ShippedWeights EXCEPT !.industry = 10],
       min_score |-> 75, max_stocks |-> 8],
      [empty |-> FALSE, weights |-> ShippedWeights,
       min_score |-> 150, max_stocks |-> 8],
      [empty |-> FALSE, weights |-> ShippedWeights,
       min_score |-> 75, max_stocks |-> 0],
      [empty |-> TRUE, weights |-> NoWeights,
       min_score |-> 0, max_stocks |-> 0] }

\* the scores of the four dimensions of one stock
FactorScores == {0, 50, 100}

\* weights.get(key, 0) for the keys calculate_final_score asks for;
\* 'market' is not a key of the configured weights
weights_get(weights, key) ==
    IF key = "technical" THEN weights.technical
    ELSE IF key = "fundamental" THEN weights.fundamental
    ELSE IF key = "industry" THEN weights.industry
    ELSE 0

\* ComprehensiveStrategySelector.calculate_final_score for one stock, in
\* hundredths
calculate_final_score(weights, tech, fund, market, industry) ==
    tech * weights_get(weights, "technical")
    + fund * weights_get(weights, "fundamental")
    + market * weights_get(weights, "market")
    + industry * weights_get(weights, "industry")

CalculateScore(sig) ==
    /\ cpc' = "calculate_score"
    /\ signals' = [kind |-> "StockScorer", v |-> sig]
    /\ score_out' = 100 * calculate_score(sig)
    /\ UNCHANGED selector
    /\ UNCHANGED <<pvars, evars, rvars, fvars, xvars, svars, nvars>>

ApplyShortTerm(sub) ==
    /\ cpc' = "_apply_strategy"
    /\ signals' = [kind |-> "short_term", v |-> sub]
    /\ score_out' = short_term_total_score(sub)
    /\ UNCHANGED selector
    /\ UNCHANGED <<pvars, evars, rvars, fvars, xvars, svars, nvars>>

\* ComprehensiveStrategySelector(): BaseSelector.__init__ raises
\* ValueError for a missing or empty config and checks nothing else
Construct(cfg) ==
    /\ ~selector.exists
    /\ IF cfg.empty
       THEN /\ cpc' = "ValueError"
            /\ selector' = NoSelector
       ELSE /\ cpc' = "__init__"
            /\ selector' = [exists |-> TRUE, name |-> "comprehensive",
                            weights |-> cfg.weights,
                            min_score |-> cfg.min_score,
                            max_stocks |-> cfg.max_stocks]
    /\ UNCHANGED <<signals, score_out>>
    /\ UNCHANGED <<pvars, evars, rvars, fvars, xvars, svars, nvars>>

CalculateFinalScore(tech, fund, market, industry) ==
    /\ selector.exists
    /\ cpc' = "calculate_final_score"
    /\ signals' = [kind |-> "dimensions",
                   v |-> <<tech, fund, market, industry>>]
    /\ score_out' = calculate_final_score(selector.weights,
                                          tech, fund, market, industry)
    /\ UNCHANGED selector
    /\ UNCHANGED <<pvars, evars, rvars, fvars, xvars, svars, nvars>>

\* ------------------------------------ scoring with reasons: factors
\* the six factors of StockScorer.calculate_score, in its order
Factors == <<"macd", "rsi", "kdj", "bollinger", "volume", "ma">>

\* what becomes of a factor on a frame: its indicator is computed; or it
\* comes back empty (for volume and ma: the check fails inside and gives
\* False); or computing it raises (a missing column, an indicator that
\* returns None)
FactorStates == {"ok", "empty", "raises"}

AllComputed == [f \in 1..6 |-> "ok"]

\* every factor computed, or a single one that is not
FactorFailures ==
    {AllComputed} \cup
    {[AllComputed EXCEPT ![f] = st] :
        f \in 1..6, st \in {"empty", "raises"}}

\* the points and the reasons the code adds for a factor it computed
factor_points(sig, f) ==
    IF f = 1 THEN Pts(sig.macd = "cross", 25) + Pts(sig.macd # "below", 10)
    ELSE IF f = 2 THEN (IF sig.rsi = "overbought" THEN 5
                        ELSE IF sig.rsi = "oversold" THEN 20 ELSE 10)
    ELSE IF f = 3 THEN Pts(sig.kdj_cross, 20) + Pts(sig.j_low, 5)
    ELSE IF f = 4 THEN Pts(sig.bollinger, 15)
    ELSE IF f = 5 THEN Pts(sig.volume, 10)
    ELSE Pts(sig.ma, 10)

Said(b, reason) == IF b THEN <<reason>> ELSE <<>>

factor_reasons(sig, f) ==
    IF f = 1 THEN Said(sig.macd = "cross", "MACD cross")
                  \o Said(sig.macd # "below", "MACD above zero")
    ELSE IF f = 2 THEN <<sig.rsi>>
    ELSE IF f = 3 THEN Said(sig.kdj_cross, "KDJ cross")
                       \o Said(sig.j_low, "KDJ oversold")
    ELSE IF f = 4 THEN Said(sig.bollinger, "near lower band")
    ELSE IF f = 5 THEN Said(sig.volume, "volume amplified")
    ELSE Said(sig.ma, "MA bullish")

RECURSIVE points_from(_, _, _)
points_from(sig, st, f) ==
    IF f > 6 THEN 0
    ELSE (IF st[f] = "ok" THEN factor_points(sig, f) ELSE 0)
         + points_from(sig, st, f + 1)

RECURSIVE reasons_from(_, _, _)
reasons_from(sig, st, f) ==
    IF f > 6 THEN <<>>
    ELSE (IF st[f] = "ok" THEN factor_reasons(sig, f) ELSE <<>>)
         \o reasons_from(sig, st, f + 1)

\* the try block of calculate_score is left by the first exception
raises(st) == \E f \in 1..6 : st[f] = "raises"

\* StockScorer.calculate_score on a frame whose factors are in the states
\* st: 0 for a short frame, (0, []) from the except clause, else the sum
\* and the reasons of the factors
calculate_score_with(sig, st) ==
    IF ~sig.enough THEN [score |-> 0, reasons |-> <<>>]
    ELSE IF raises(st) THEN [score |-> 0, reasons |-> <<>>]
    ELSE [score |-> points_from(sig, st, 1),
          reasons |-> reasons_from(sig, st, 1)]

CalculateScoreWith(sig, st) ==
    /\ apc = "idle"
    /\ apc' = "calculate_score"
    /\ factor_in' = [kind |-> "StockScorer", v |-> [sig |-> sig, st |-> st]]
    /\ score_ret' = 100 * calculate_score_with(sig, st).score
    /\ reasons_ret' = calculate_score_with(sig, st).reasons
    /\ UNCHANGED <<pvars, evars, rvars, fvars, xvars, svars, cvars, qvars, wvars, kvars>>

\* ------------------- scoring with reasons: the short-term strategy
\* what the frame shows to the six analyses of the short-term strategy
VolumeSignals ==
    [surge : {"none", "moderate", "strong"}, together : BOOLEAN,
     consecutive : BOOLEAN, active : BOOLEAN]

PriceSignals ==
    [ma : {"none", "bullish", "cross"}, gain : {"none", "over8", "over15"},
     high : {"none", "near", "new"}, limit_up : BOOLEAN]

BreakthroughSignals ==
    [macd : BOOLEAN, kdj : BOOLEAN, bollinger : BOOLEAN, confirmed : BOOLEAN]

\* the frames scored: enough rows or not, and for each analysis some of
\* the signals it can see
ShortTermFrames ==
    [enough : BOOLEAN,
     volume : {v \in VolumeSignals :
                  (v.together = v.consecutive) /\ (v.together = v.active)},
     price : {q \in PriceSignals :
                  q.ma # "cross" /\ q.gain = "none" /\ q.high # "near"},
     breakthrough : {b \in BreakthroughSignals :
                        b.macd = b.kdj /\ b.kdj = b.bollinger
                        /\ b.bollinger = b.confirmed},
     ups : {0, 2, 3},
     liquidity : {"none", "sufficient", "active"},
     volatility : {"none", "moderate"}]

Scored(score, reasons) == [score |-> score, reasons |-> reasons]

\* ShortTermTradingStrategy._analyze_volume_momentum, before min(100, .)
_analyze_volume_momentum(v) ==
    Scored(
      (IF v.surge = "strong" THEN 30 ELSE IF v.surge = "moderate" THEN 20
       ELSE 0)
      + Pts(v.together, 25) + Pts(v.consecutive, 20) + Pts(v.active, 25),
      Said(v.surge = "strong", "volume surge")
      \o Said(v.surge = "moderate", "volume up")
      \o Said(v.together, "price and volume up")
      \o Said(v.consecutive, "volume rising for days")
      \o Said(v.active, "active today"))

\* _analyze_price_momentum
_analyze_price_momentum(q) ==
    Scored(
      (IF q.ma = "bullish" THEN 30 ELSE IF q.ma = "cross" THEN 25 ELSE 0)
      + (IF q.gain = "over15" THEN 25 ELSE IF q.gain = "over8" THEN 15
         ELSE 0)
      + (IF q.high = "new" THEN 25 ELSE IF q.high = "near" THEN 15 ELSE 0)
      + Pts(q.limit_up, 20),
      Said(q.ma = "bullish", "short MAs bullish")
      \o Said(q.ma = "cross", "MA5 crossed MA10")
      \o Said(q.gain # "none", "3-day gain")
      \o Said(q.high = "new", "20-day high")
      \o Said(q.high = "near", "near 20-day high")
      \o Said(q.limit_up, "limit up"))

\* _analyze_technical_breakthrough
_analyze_technical_breakthrough(b) ==
    Scored(
      Pts(b.macd, 30) + Pts(b.kdj, 25) + Pts(b.bollinger, 20)
      + Pts(b.confirmed, 25),
      Said(b.macd, "fast MACD cross")
      \o Said(b.kdj, "KDJ golden cross")
      \o Said(b.bollinger, "above upper band")
      \o Said(b.confirmed, "volume confirms"))

sentiment_without_base_reason(ups) ==
    Scored(50 + (IF ups >= 3 THEN 30 ELSE IF ups >= 2 THEN 15 ELSE 0),
           IF ups >= 3 THEN <<"sentiment optimistic">>
           ELSE IF ups >= 2 THEN <<"sentiment good">>
           ELSE <<>>)

\* _analyze_market_sentiment: 50 base points and always one reason
_analyze_market_sentiment(ups) ==
    Scored(50 + (IF ups >= 3 THEN 30 ELSE IF ups >= 2 THEN 15 ELSE 0),
           IF ups >= 3 THEN <<"sentiment optimistic">>
           ELSE IF ups >= 2 THEN <<"sentiment good">>
           ELSE <<"sentiment neutral">>)

\* _analyze_liquidity
_analyze_liquidity(l) ==
    IF l = "none" THEN Scored(0, <<>>)
    ELSE IF l = "active" THEN Scored(80, <<"liquidity active">>)
    ELSE Scored(50, <<"liquidity sufficient">>)

\* _analyze_volatility
_analyze_volatility(x) ==
    IF x = "moderate" THEN Scored(80, <<"volatility moderate">>)
    ELSE IF x = "high" THEN Scored(60, <<"volatility high">>)
    ELSE IF x = "low" THEN Scored(40, <<"volatility low">>)
    ELSE Scored(0, <<>>)

\* reasons[:5]
first_five(reasons) ==
    SubSeq(reasons, 1, IF Len(reasons) < 5 THEN Len(reasons) ELSE 5)

\* ShortTermTradingStrategy._apply_strategy: the weighted total, in
\* hundredths, and the first five reasons of the six analyses in the
\* order volume, price, breakthrough, sentiment, liquidity, volatility
_apply_strategy(frame) ==
    IF ~frame.enough THEN Scored(0, <<>>)
    ELSE LET parts == <<_analyze_volume_momentum(frame.volume),
                        _analyze_price_momentum(frame.price),
                        _analyze_technical_breakthrough(frame.breakthrough),
                        _analyze_market_sentiment(frame.ups),
                        _analyze_liquidity(frame.liquidity),
                        _analyze_volatility(frame.volatility)>>
         IN Scored(
              short_term_total_score([k \in 1..6 |-> parts[k].score]),
              first_five(parts[1].reasons \o parts[2].reasons
                         \o parts[3].reasons \o parts[4].reasons
                         \o parts[5].reasons \o parts[6].reasons))

\* _score_single_stock on a frame long enough for it: the score and the
\* reasons of _apply_strategy, which go into the result when score > 0
ApplyStrategy(frame) ==
    /\ apc = "idle"
    /\ apc' = "_apply_strategy"
    /\ factor_in' = [kind |-> "short_term", v |-> frame]
    /\ score_ret' = _apply_strategy(frame).score
    /\ reasons_ret' = _apply_strategy(frame).reasons
    /\ UNCHANGED <<pvars, evars, rvars, fvars, xvars, svars, cvars, qvars, wvars, kvars>>

\* ------------------------- specification: scoring with reasons
InitReasons ==
    /\ CoreIdle
    /\ OthersIdle

NextReasons ==
    \/ \E sig \in ScorerSignals, st \in FactorFailures :
          CalculateScoreWith(sig, st)
    \/ \E frame \in ShortTermFrames : ApplyStrategy(frame)

SpecReasons == InitReasons /\ [][NextReasons]_vars

\* --------------------------- properties: scoring with reasons
\* the sum of the points of the factors that could be computed
RECURSIVE ComputableSum(_, _, _)
ComputableSum(sig, st, f) ==
    IF f = 0 THEN 0
    ELSE (IF st[f] = "ok" THEN factor_points(sig, f) ELSE 0)
         + ComputableSum(sig, st, f - 1)

\* C25: on a frame long enough, the total of calculate_score is the sum
\* of the points of the factors that could be computed: a factor that
\* fails or lacks data adds 0 and leaves the others their points
Cex_C25_FailedFactorContributesZero ==
    (apc = "calculate_score" /\ factor_in.v.sig.enough) =>
        score_ret = 100 * ComputableSum(factor_in.v.sig, factor_in.v.st, 6)

\* every reason of the short-term strategy, in the order in which its
\* analyses and their checks are evaluated
ReasonOrder ==
    <<"volume surge", "volume up", "price and volume up",
      "volume rising for days", "active today",
      "short MAs bullish", "MA5 crossed MA10", "3-day gain",
      "20-day high", "near 20-day high", "limit up",
      "fast MACD cross", "KDJ golden cross", "above upper band",
      "volume confirms",
      "sentiment optimistic", "sentiment good", "sentiment neutral",
      "liquidity active", "liquidity sufficient",
      "volatility moderate", "volatility high", "volatility low">>

ReasonRank(reason) ==
    CHOOSE k \in 1..Len(ReasonOrder) : ReasonOrder[k] = reason

\* C26: a score above 0 comes with at least one reason, and the reasons
\* (at most five) stand in the order in which the strategy evaluates its
\* factors
Thm_C26_ReasonsNonEmptyInEvaluationOrder ==
    apc = "_apply_strategy" =>
        /\ score_ret > 0 => reasons_ret # <<>>
        /\ Len(reasons_ret) <= 5
        /\ \A j \in 1..Len(reasons_ret) :
               \E k \in 1..Len(ReasonOrder) : ReasonOrder[k] = reasons_ret[j]
        /\ \A i, j \in 1..Len(reasons_ret) :
               i < j => ReasonRank(reasons_ret[i]) < ReasonRank(reasons_ret[j])
        /\ factor_in.v.enough <=> score_ret > 0

\* a frame on which nothing but the base points of the sentiment analysis
\* scores: a score above 0 with the one reason of that analysis
Wit_C26_OnlySentimentReason ==
    /\ apc = "_apply_strategy"
    /\ score_ret = 50 * 15
    /\ reasons_ret = <<"sentiment neutral">>

\* ------------------------------------------- specification: scoring
InitScoring ==
    /\ CoreIdle
    /\ OthersIdle

NextScoring ==
    \/ \E sig \in ScorerSignals : CalculateScore(sig)
    \/ \E sub \in [1..6 -> RawSubScores] : ApplyShortTerm(sub)
    \/ \E cfg \in StrategyConfigs : Construct(cfg)
    \/ \E tech \in FactorScores, fund \in FactorScores,
          market \in FactorScores, industry \in FactorScores :
           CalculateFinalScore(tech, fund, market, industry)

SpecScoring == InitScoring /\ [][NextScoring]_vars

\* ----------------------------------------------- properties: scoring
\* C18: a score that StockScorer.calculate_score or the short-term
\* strategy computes lies between 0 and 100 (score_out is in hundredths)
Cex_C18_ScoreWithinZeroAndHundred ==
    cpc \in {"calculate_score", "_apply_strategy"} =>
        0 <= score_out /\ score_out <= 100 * 100

\* C19: a selector that has been constructed has weights that sum to 1,
\* a minimum score within [0, 100] and a maximum number of results of at
\* least 1, and its weighted sum uses every one of these weights (four
\* dimensions at 100 give a total of 100)
Cex_C19_ConstructedSelectorHasValidConfig ==
    selector.exists =>
        /\ selector.weights.technical + selector.weights.fundamental
             + selector.weights.sentiment + selector.weights.industry = 100
        /\ 0 <= selector.min_score /\ selector.min_score <= 100
        /\ selector.max_stocks >= 1
        /\ (cpc = "calculate_final_score"
              /\ signals.v = <<100, 100, 100, 100>>)
             => score_out = 100 * 100


\* ------------------------------------- properties: performance report
\* C20: a run that recorded at least one snapshot ends with a report,
\* whose Sharpe ratio is a finite number
Cex_C20_ReportWithFiniteSharpe ==
    (pc = "done" /\ history # <<>>) =>
        /\ result = "Report"
        /\ sharpe_ratio(history) = "finite"

====
